---- MODULE Spec2Model ----
(***************************************************************************)
(* Request authentication / authorization pipeline of                      *)
(* Masharah-Advisory/common: the identity classifier (SmartAuthMiddleware, *)
(* AuthMiddleware, ServiceAuthMiddleware), the local token validator       *)
(* (parseJWTToken), the authorization middleware (PermissionMiddleware,    *)
(* PermissionAnyMiddleware, RequirePermission, RequirePermissions) and the *)
(* permission gate (checkUserPermission over ServiceClient).               *)
(*                                                                         *)
(* Go strings that are only compared are TLA+ strings; strings that are    *)
(* parsed or formatted (decimal user ids) are sequences of one-character   *)
(* strings.  A value stored in gin's per-request key/value map is a record *)
(* [type, num, str] carrying its dynamic Go type, its value when it is a   *)
(* number and its characters when it is a string.                          *)
(***************************************************************************)
EXTENDS Integers, Sequences, FiniteSets, TLC

VARIABLES
    ServiceSecret,   \* utils.ServiceSecret (process-wide)
    JWTSecret,       \* utils.JWTSecret (process-wide)
    jwtSecret,       \* variadic argument of SmartAuthMiddleware / AuthMiddleware
    serviceClient,   \* package variable serviceClient of the authorization middleware
    now,             \* time.Now()
    env,             \* the environment of the process: os.Getenv
    inbound,         \* the header of the request as the client sent it
    header,          \* c.Request.Header of the inbound request
    keys,            \* c.Keys: values stored with c.Set
    status,          \* HTTP status written to the response (0: none written)
    message,         \* message of the response envelope: [key, arg]
    aborted,         \* c.Abort() was called
    handlerRan,      \* the chain ran to the end: the route handler was reached
    pc,              \* position of the request in the middleware chain
    entry,           \* the authentication middleware that classified the request
    tokenCalls,      \* parseJWTToken invocations so far: <<[tokenString, jwtSecret]>>
    mw,              \* the authorization middleware installed on the route
    permissions,     \* its required permissions
    idx,             \* index of the permission being checked
    uid,             \* the converted user id
    gateCalls,       \* checkUserPermission invocations so far: <<[userID, permission]>>
    gateResults,     \* what each completed invocation returned: <<[allowed, err]>>
    outbound,        \* requests handed to http.Client.Do so far
    reply,           \* the last answer of the authorization service
    requestsPerMinute, \* argument of RateLimitMiddleware
    clients,         \* its map from client IP to [limiter, lastSeen]
    limiters,        \* the rate.Limiter objects allocated so far, each with the
                     \* admission checks made on it, in the order of Allow
    handlers,        \* the requests inside the rate limiting handler
    wake,            \* the time the cleanup goroutine's Sleep returns
    advances,        \* the number of times the clock was advanced
    mu,              \* the holder of the mutex mu of RateLimitMiddleware
    unswept,         \* the limiters of a map that is never swept, by client IP
    call,            \* the ServiceClient method called: [method, ctx, route, payload]
    returned,        \* what it returned: [done, err, resp]
    responseHeader,  \* c.Writer.Header(): the X-Request-ID of the response
    cancelled,       \* the context of the inbound request is done
    remote,          \* what the authorization service may answer to a query
    first            \* what the first of two middlewares compared came to

config == <<ServiceSecret, JWTSecret, jwtSecret, serviceClient, now, env, inbound>>
resp   == <<status, message, aborted, handlerRan>>
auth   == <<entry, tokenCalls>>
authz  == <<mw, permissions, idx, uid, gateCalls, gateResults, outbound, reply>>
rate   == <<requestsPerMinute, clients, limiters, handlers, wake, advances, mu, unswept>>
outcall == <<call, returned>>
pairing == <<remote, first>>
vars   == <<config, header, keys, resp, pc, auth, authz, rate, outcall, responseHeader, cancelled, pairing>>

(***************************************************************************)
(* Bounds of the model.                                                    *)
(***************************************************************************)
MaxTime == 2
MaxSub == 2
MaxPerms == 2

NoTime == 0 - 1
Times == 0 .. MaxTime
\* The instant of the request: there is always an earlier and a later time.
Clock == MaxTime - 1
Subjects == 1 .. MaxSub

(***************************************************************************)
(* Decimal conversions.                                                    *)
(***************************************************************************)
Digits == <<"0", "1", "2", "3", "4", "5", "6", "7", "8", "9">>

DigitValue(ch) == CHOOSE d \in 0 .. 9 : Digits[d + 1] = ch

IsDigit(ch) == \E d \in 0 .. 9 : Digits[d + 1] = ch

RECURSIVE FormatUint(_)
FormatUint(n) ==
    IF n < 10 THEN <<Digits[n + 1]>>
    ELSE FormatUint(n \div 10) \o <<Digits[(n % 10) + 1]>>

\* Largest value of an unsigned integer of 32 bits, in decimal.
MaxUint32Digits == <<"4", "2", "9", "4", "9", "6", "7", "2", "9", "5">>

RECURSIVE StripZeros(_)
StripZeros(s) ==
    IF Len(s) > 1 /\ s[1] = "0" THEN StripZeros(Tail(s)) ELSE s

\* s <= t for two digit strings of the same length.
RECURSIVE DigitsLeq(_, _)
DigitsLeq(s, t) ==
    IF s = <<>> THEN TRUE
    ELSE IF DigitValue(s[1]) < DigitValue(t[1]) THEN TRUE
    ELSE IF DigitValue(s[1]) > DigitValue(t[1]) THEN FALSE
    ELSE DigitsLeq(Tail(s), Tail(t))

RECURSIVE DigitsValue(_)
DigitsValue(s) ==
    IF s = <<>> THEN 0
    ELSE 10 * DigitsValue(SubSeq(s, 1, Len(s) - 1)) + DigitValue(s[Len(s)])

\* strconv.ParseUint(s, 10, 32): a syntax error for an empty string or a
\* character that is no digit, a range error above 2^32 - 1.
ParseUint32(s) ==
    IF s = <<>> \/ \E i \in 1 .. Len(s) : ~IsDigit(s[i])
    THEN [err |-> "syntax", val |-> 0]
    ELSE LET z == StripZeros(s)
         IN IF Len(z) > Len(MaxUint32Digits)
               \/ (Len(z) = Len(MaxUint32Digits) /\ ~DigitsLeq(z, MaxUint32Digits))
            THEN [err |-> "range", val |-> 0]
            ELSE [err |-> "nil", val |-> DigitsValue(z)]

(***************************************************************************)
(* Values of gin's key/value map.                                          *)
(***************************************************************************)
Absent == [type |-> "absent", num |-> 0, str |-> <<>>]

Exists(v) == v.type # "absent"

GoString(s) == [type |-> "string", num |-> 0, str |-> s]

GoNumber(t, n) == [type |-> t, num |-> n, str |-> <<>>]

\* v == "s" for an interface value v: equal dynamic type and equal value.
EqString(v, s) == v.type = "string" /\ v.str = s

service == <<"s", "e", "r", "v", "i", "c", "e">>
user == <<"u", "s", "e", "r">>
admin == <<"a", "d", "m", "i", "n">>

(***************************************************************************)
(* Signed credentials.                                                     *)
(***************************************************************************)
HMACAlgs == {"HS256", "HS384"}
Algs == HMACAlgs \cup {"RS256"}
SigningKeys == {"k1", "k2"}

\* A well-formed JWT: its header's algorithm, the key its signature was
\* computed with, the user_id claim and the registered exp and nbf claims.
JWTs ==
    [kind : {"jwt"}, alg : Algs, key : SigningKeys, sub : Subjects,
     exp : {NoTime} \cup Times, nbf : {NoTime} \cup Times]

NotAToken(k) ==
    [kind |-> k, alg |-> "", key |-> "", sub |-> 0, exp |-> NoTime, nbf |-> NoTime]

EmptyString == NotAToken("empty")
Garbage == NotAToken("garbage")

\* The Authorization header as scheme prefix followed by the credentials.
NoHeader == [scheme |-> "", credentials |-> EmptyString]

AuthorizationHeaders(tokens) ==
    {NoHeader}
    \cup [scheme : {"Bearer "}, credentials : tokens \cup {EmptyString, Garbage}]
    \cup [scheme : {"Basic ", "bearer ", ""}, credentials : {Garbage}]
    \cup [scheme : {"bearer "},
          credentials : {t \in tokens : /\ t.alg = "HS256" /\ t.sub = 1
                                        /\ t.exp = NoTime /\ t.nbf = NoTime}]

\* The prefix is matched without regard to case.
TrimPrefix_AnyCase(h, prefix) ==
    IF h.scheme \in {prefix, "bearer "}
    THEN [scheme |-> "", credentials |-> h.credentials]
    ELSE h

\* strings.TrimPrefix(h, prefix)
TrimPrefix(h, prefix) ==
    IF h.scheme = prefix THEN [scheme |-> "", credentials |-> h.credentials] ELSE h

\* The signature is not verified.
ParseWithClaims_Unverified(tokenString, secret, t) ==
    LET tok == tokenString.credentials
    IN IF tokenString.scheme # "" \/ tok.kind # "jwt" THEN "token is malformed"
       ELSE IF tok.alg \notin HMACAlgs THEN "unexpected signing method"
       ELSE IF tok.exp # NoTime /\ ~(t < tok.exp) THEN "token is expired"
       ELSE IF tok.nbf # NoTime /\ t < tok.nbf THEN "token is not valid yet"
       ELSE "nil"

\* jwt.ParseWithClaims(tokenString, &Claims{}, keyFunc) of golang-jwt v5 with
\* the key function of parseJWTToken: the token is split and decoded, the
\* key function refuses a signing method that is not HMAC, the signature
\* is verified with []byte(jwtSecret), and the registered claims are
\* validated (exp: now < exp, nbf: now >= nbf).  Returns the error, "nil"
\* when the token is valid.
ParseWithClaims(tokenString, secret, t) ==
    LET tok == tokenString.credentials
    IN IF tokenString.scheme # "" \/ tok.kind # "jwt" THEN "token is malformed"
       ELSE IF tok.alg \notin HMACAlgs THEN "unexpected signing method"
       ELSE IF tok.key # secret THEN "signature is invalid"
       ELSE IF tok.exp # NoTime /\ ~(t < tok.exp) THEN "token is expired"
       ELSE IF tok.nbf # NoTime /\ t < tok.nbf THEN "token is not valid yet"
       ELSE "nil"

\* The claims are not validated and the expiry is not looked at.
parseJWTToken_NoExpiry(tokenString, secret, t) ==
    LET tok == tokenString.credentials
    IN IF tokenString.scheme # "" \/ tok.kind # "jwt" \/ tok.alg \notin HMACAlgs
          \/ tok.key # secret
       THEN [err |-> "invalid token", UserID |-> 0]
       ELSE [err |-> "nil", UserID |-> tok.sub]

\* parseJWTToken(tokenString, jwtSecret): [err, UserID]
parseJWTToken(tokenString, secret, t) ==
    LET err == ParseWithClaims(tokenString, secret, t)
        claims == tokenString.credentials
    IN IF err # "nil" THEN [err |-> err, UserID |-> 0]
       ELSE IF claims.exp # NoTime /\ claims.exp < t
            THEN [err |-> "token expired", UserID |-> 0]
       ELSE [err |-> "nil", UserID |-> claims.sub]

(***************************************************************************)
(* Responses.                                                              *)
(***************************************************************************)
\* i18n.T(c, key), with the permission appended by the 403 answers.
T(key) == [key |-> key, arg |-> ""]

NoMessage == T("")

\* The response is written and the chain goes on.
Reject_NoAbort(code, msg) ==
    /\ status' = code
    /\ message' = msg
    /\ pc' = "authz"
    /\ UNCHANGED <<aborted, handlerRan>>

\* response.Unauthorized / InternalError / Forbidden followed by c.Abort().
Reject(code, msg) ==
    /\ status' = code
    /\ message' = msg
    /\ aborted' = TRUE
    /\ pc' = "done"
    /\ UNCHANGED handlerRan

(***************************************************************************)
(* Process configuration.                                                  *)
(***************************************************************************)
\* The environment after godotenv.Load(): a variable that is not set reads
\* as the empty string.
NoEnv ==
    [SERVICE_ID |-> "", SERVICE_SECRET |-> "", AUTH_SERVICE_URL |-> "", JWT_SECRET |-> ""]

\* ServiceID == "" || ServiceSecret == "" || AuthServiceURL == ""
MissingRequired(e) ==
    e.SERVICE_ID = "" \/ e.SERVICE_SECRET = "" \/ e.AUTH_SERVICE_URL = ""

\* utils.LoadEnv(): the package variables are read from the environment;
\* log.Fatal ends the process when a required one is missing, a missing
\* JWT_SECRET is only logged.
LoadEnv ==
    /\ pc = "boot"
    /\ ServiceSecret' = env.SERVICE_SECRET
    /\ JWTSecret' = env.JWT_SECRET
    /\ pc' = IF MissingRequired(env) THEN "exit" ELSE "auth"
    /\ UNCHANGED <<jwtSecret, serviceClient, now, env, inbound>>
    /\ UNCHANGED <<header, keys, resp, auth, authz, rate, outcall, responseHeader, cancelled, pairing>>

(***************************************************************************)
(* Identity classifier.                                                    *)
(***************************************************************************)
\* Without a secret of its own the validator falls back on the service
\* secret.
Secret_Fallback ==
    IF Len(jwtSecret) > 0 /\ jwtSecret[1] # "" THEN jwtSecret[1]
    ELSE IF JWTSecret # "" THEN JWTSecret
    ELSE ServiceSecret

\* The local-validation secret: the argument when given and non-empty,
\* utils.JWTSecret otherwise.
Secret ==
    IF Len(jwtSecret) > 0 /\ jwtSecret[1] # "" THEN jwtSecret[1] ELSE JWTSecret

\* The bearer token is looked at first: the service-secret branch is taken
\* only for a request without an Authorization header.
HasServiceSecret_BearerFirst(serviceSecret) ==
    serviceSecret # "" /\ header.Authorization = NoHeader

\* serviceSecret != "": the request carries the service-secret header.
HasServiceSecret(serviceSecret) == serviceSecret # ""

\* Any secret is taken when none is configured.
ValidServiceSecret_Unconfigured(serviceSecret) ==
    ServiceSecret = "" \/ serviceSecret = ServiceSecret

\* serviceSecret == utils.ServiceSecret
ValidServiceSecret(serviceSecret) == serviceSecret = ServiceSecret

\* A value the request carries already is kept.
HeaderSet_KeepFirst(h, value) ==
    IF h.XUserID # <<>> THEN h ELSE [h EXCEPT !.XUserID = value]

\* c.Request.Header.Set(utils.XUserIDHeader, value): the values the request
\* carried under the name are replaced.
HeaderSet(h, value) == [h EXCEPT !.XUserID = value]

\* claims, err := parseJWTToken(tokenString, secret) is reached.
CallParseJWTToken(tokenString) ==
    tokenCalls' = Append(tokenCalls, [tokenString |-> tokenString, jwtSecret |-> Secret])

SmartAuthMiddleware ==
    /\ pc = "auth"
    /\ entry' = "SmartAuthMiddleware"
    /\ LET serviceSecret == header.XServiceSecret
           authHeader == header.Authorization
           tokenString == TrimPrefix(authHeader, "Bearer ")
           parsed == parseJWTToken(tokenString, Secret, now)
       IN IF HasServiceSecret(serviceSecret)
          THEN IF ValidServiceSecret(serviceSecret)
               THEN /\ keys' = [keys EXCEPT !.authType = GoString(service)]
                    /\ pc' = "authz"
                    /\ UNCHANGED <<header, resp, tokenCalls>>
               ELSE /\ Reject(401, T("invalid_service_credentials"))
                    /\ UNCHANGED <<header, keys, tokenCalls>>
          ELSE IF authHeader # NoHeader
          THEN IF tokenString = authHeader
               THEN /\ Reject(401, T("invalid_authorization_format"))
                    /\ UNCHANGED <<header, keys, tokenCalls>>
               ELSE IF Secret = ""
               THEN /\ Reject(500, T("jwt_secret_not_configured"))
                    /\ UNCHANGED <<header, keys, tokenCalls>>
               ELSE IF parsed.err # "nil"
               THEN /\ Reject(401, T("invalid_or_expired_token"))
                    /\ CallParseJWTToken(tokenString)
                    /\ UNCHANGED <<header, keys>>
               ELSE /\ keys' = [keys EXCEPT
                                  !.user_id = GoNumber("uint64", parsed.UserID),
                                  !.authType = GoString(user)]
                    /\ header' = HeaderSet(header, FormatUint(parsed.UserID))
                    /\ CallParseJWTToken(tokenString)
                    /\ pc' = "authz"
                    /\ UNCHANGED resp
          ELSE /\ Reject(401, T("missing_authentication"))
               /\ UNCHANGED <<header, keys, tokenCalls>>
    /\ UNCHANGED <<config, authz, rate, outcall, responseHeader, cancelled, pairing>>

AuthMiddleware ==
    /\ pc = "auth"
    /\ entry' = "AuthMiddleware"
    /\ LET authHeader == header.Authorization
           tokenString == TrimPrefix(authHeader, "Bearer ")
           parsed == parseJWTToken(tokenString, Secret, now)
       IN IF authHeader = NoHeader
          THEN /\ Reject(401, T("missing_authorization_header"))
               /\ UNCHANGED <<header, keys, tokenCalls>>
          ELSE IF tokenString = authHeader
          THEN /\ Reject(401, T("invalid_authorization_format"))
               /\ UNCHANGED <<header, keys, tokenCalls>>
          ELSE IF Secret = ""
          THEN /\ Reject(500, T("jwt_secret_not_configured"))
               /\ UNCHANGED <<header, keys, tokenCalls>>
          ELSE IF parsed.err # "nil"
          THEN /\ Reject(401, T("invalid_or_expired_token"))
               /\ CallParseJWTToken(tokenString)
               /\ UNCHANGED <<header, keys>>
          ELSE /\ keys' = [keys EXCEPT
                             !.user_id = GoNumber("uint", parsed.UserID)]
               /\ header' = HeaderSet(header, FormatUint(parsed.UserID))
               /\ CallParseJWTToken(tokenString)
               /\ pc' = "authz"
               /\ UNCHANGED resp
    /\ UNCHANGED <<config, authz, rate, outcall, responseHeader, cancelled, pairing>>

ServiceAuthMiddleware ==
    /\ pc = "auth"
    /\ entry' = "ServiceAuthMiddleware"
    /\ LET serviceSecret == header.XServiceSecret
       IN IF ~HasServiceSecret(serviceSecret)
          THEN Reject(401, T("missing_service_headers"))
          ELSE IF ~ValidServiceSecret(serviceSecret)
          THEN Reject(401, T("invalid_service_credentials"))
          ELSE /\ pc' = "authz"
               /\ UNCHANGED resp
    /\ UNCHANGED <<config, header, keys, tokenCalls, authz, rate, outcall, responseHeader, cancelled, pairing>>

(***************************************************************************)
(* Service client.                                                         *)
(***************************************************************************)
NilClient ==
    [nil |-> TRUE, serviceID |-> "", serviceSecret |-> "", serviceHosts |-> <<>>]

\* httpclient.NewServiceClient(serviceID, serviceSecret, config)
NewServiceClient(serviceID, serviceSecret, cfg) ==
    [nil |-> FALSE, serviceID |-> serviceID, serviceSecret |-> serviceSecret,
     serviceHosts |-> cfg]

\* A route is the sequence of its segments between "/": "/api/v1/auth/access"
\* is <<"", "api", "v1", "auth", "access">>.
AccessRoute == <<"", "api", "v1", "auth", "access">>

\* strings.TrimPrefix(route, "/")
TrimSlash(route) ==
    IF Len(route) > 1 /\ route[1] = "" THEN Tail(route) ELSE route

\* strings.TrimSuffix(host, "/"): a host is the sequence of its segments too,
\* "http://auth/" is <<"http://auth", "">>.
TrimSuffixSlash(host) ==
    IF Len(host) > 1 /\ host[Len(host)] = ""
    THEN SubSeq(host, 1, Len(host) - 1)
    ELSE host

\* A route of a service without a configured host is sent as it is.
buildURL_AnyHost(c, route) ==
    LET parts == TrimSlash(route)
    IN IF Len(parts) < 3
       THEN [err |-> "invalid API route format", url |-> <<>>]
       ELSE IF parts[3] \notin DOMAIN c.serviceHosts
       THEN [err |-> "nil", url |-> parts]
       ELSE [err |-> "nil", url |-> TrimSuffixSlash(c.serviceHosts[parts[3]]) \o parts]

\* ServiceClient.buildURL(route): [err, url]
buildURL(c, route) ==
    LET parts == TrimSlash(route)
    IN IF Len(parts) < 3
       THEN [err |-> "invalid API route format", url |-> <<>>]
       ELSE IF parts[3] \notin DOMAIN c.serviceHosts
       THEN [err |-> "no host configured for service", url |-> <<>>]
       ELSE [err |-> "nil", url |-> TrimSuffixSlash(c.serviceHosts[parts[3]]) \o parts]

\* The context.Context handed to the client: a *gin.Context, with the header
\* of the request it serves and its keys, or a standard context, with the
\* values stored under "user_id" and "request_id".
NoValues == [user_id |-> Absent, request_id |-> Absent]

NoRequestHeader ==
    [XServiceSecret |-> "", Authorization |-> [scheme |-> "", credentials |-> ""],
     XUserID |-> <<>>, XRequestID |-> <<>>, AcceptLanguage |-> <<>>]

NoKeys == [authType |-> Absent, user_id |-> Absent, request_id |-> Absent]

GinContext(h, k) == [gin |-> TRUE, header |-> h, keys |-> k, values |-> NoValues]

StdContext(v) == [gin |-> FALSE, header |-> NoRequestHeader, keys |-> NoKeys, values |-> v]

\* The credential header of the inbound request is copied too.
extractHeaders_All(ctx) ==
    LET h == ctx.header
        k == ctx.keys
        v == ctx.values
        h0 == IF h.XServiceSecret # ""
              THEN ("X-Service-Secret" :> <<h.XServiceSecret>>)
              ELSE <<>>
        h1 == IF h.XUserID # <<>> THEN ("X-User-ID" :> h.XUserID) @@ h0 ELSE h0
        h2 == IF Exists(k.user_id) /\ k.user_id.type = "uint"
              THEN ("X-User-ID" :> FormatUint(k.user_id.num)) @@ h1
              ELSE h1
        h3 == IF h.XRequestID # <<>> THEN ("X-Request-ID" :> h.XRequestID) @@ h2 ELSE h2
        h4 == IF h.AcceptLanguage # <<>>
              THEN ("Accept-Language" :> h.AcceptLanguage) @@ h3
              ELSE h3
        s1 == IF Exists(v.user_id) /\ v.user_id.type = "uint"
              THEN ("X-User-ID" :> FormatUint(v.user_id.num))
              ELSE <<>>
        s2 == IF Exists(v.request_id) /\ v.request_id.type = "string"
              THEN ("X-Request-ID" :> v.request_id.str) @@ s1
              ELSE s1
    IN IF ctx.gin THEN h4 ELSE s2

\* ServiceClient.extractHeaders(ctx)
extractHeaders(ctx) ==
    LET h == ctx.header
        k == ctx.keys
        v == ctx.values
        h1 == IF h.XUserID # <<>> THEN ("X-User-ID" :> h.XUserID) ELSE <<>>
        h2 == IF Exists(k.user_id) /\ k.user_id.type = "uint"
              THEN ("X-User-ID" :> FormatUint(k.user_id.num)) @@ h1
              ELSE h1
        h3 == IF h.XRequestID # <<>> THEN ("X-Request-ID" :> h.XRequestID) @@ h2 ELSE h2
        h4 == IF h.AcceptLanguage # <<>>
              THEN ("Accept-Language" :> h.AcceptLanguage) @@ h3
              ELSE h3
        s1 == IF Exists(v.user_id) /\ v.user_id.type = "uint"
              THEN ("X-User-ID" :> FormatUint(v.user_id.num))
              ELSE <<>>
        s2 == IF Exists(v.request_id) /\ v.request_id.type = "string"
              THEN ("X-Request-ID" :> v.request_id.str) @@ s1
              ELSE s1
    IN IF ctx.gin THEN h4 ELSE s2

\* The request ServiceClient.doRequest hands to http.Client.Do; http.NewRequest
\* gives it the background context.
doRequest(c, method, url, payload, contextHeaders) ==
    [method |-> method, url |-> url, body |-> payload, ctx |-> "background",
     header |-> contextHeaders
                @@ ("Content-Type" :> <<"application/json">>)
                @@ ("X-Service-ID" :> <<c.serviceID>>)
                @@ ("X-Service-Secret" :> <<c.serviceSecret>>)]

\* Only the server errors are taken for errors.
StatusIsError_ServerOnly(code) == code >= 500

\* resp.StatusCode >= 400
StatusIsError(code) == code >= 400

\* The response is handed back with the error of its status.
doResponse_KeepResponse(r) ==
    IF r.transport # "ok" THEN [err |-> "request failed", resp |-> FALSE, body |-> <<>>]
    ELSE IF StatusIsError(r.status)
    THEN [err |-> "service returned error", resp |-> TRUE, body |-> <<>>]
    ELSE [err |-> "nil", resp |-> TRUE, body |-> r.body]

\* What doRequest returns for the answer http.Client.Do got: [err, resp, body],
\* resp telling whether the *http.Response is non-nil.
doResponse(r) ==
    IF r.transport # "ok" THEN [err |-> "request failed", resp |-> FALSE, body |-> <<>>]
    ELSE IF StatusIsError(r.status)
    THEN [err |-> "service returned error", resp |-> FALSE, body |-> <<>>]
    ELSE [err |-> "nil", resp |-> TRUE, body |-> r.body]

\* The payloads of the callers: nil, a value json.Marshal encodes, and a
\* value of a type it does not support.
NilPayload == Absent

Payloads == {NilPayload, GoString(<<"{}">>), GoNumber("chan", 0)}

\* json.Marshal(payload): the error it returns
Marshal(payload) ==
    IF payload.type \in {"chan", "func"} THEN "unsupported type" ELSE "nil"

\* Hosts url.Parse refuses.
Malformed == {"http://bad host"}

\* http.NewRequest(method, url, body): the error it returns
NewRequest(method, url) ==
    IF url[1] \in Malformed THEN "invalid character in host name" ELSE "nil"

\* generateRequestID(): a time stamp and a fresh UUID.
GeneratedIDs == {<<"20261103-100000-", "uuid-1">>, <<"20261103-100000-", "uuid-2">>}

\* RequestIDMiddleware, before the handler that calls the client.
RequestIDMiddleware ==
    /\ pc = "requestid"
    /\ \E generated \in GeneratedIDs :
        LET requestId == IF header.XRequestID = <<>> THEN generated
                         ELSE header.XRequestID
        IN /\ keys' = [keys EXCEPT !.request_id = GoString(requestId)]
           /\ responseHeader' = requestId
    /\ pc' = "client"
    /\ UNCHANGED <<config, header, resp, auth, authz, rate, outcall, cancelled, pairing>>

\* ServiceClient.smartRequest(ctx, method, route, payload), up to the call of
\* http.Client.Do; a handler that holds a gin context passes it as ctx.
smartRequest(method, route, payload) ==
    /\ pc = "client"
    /\ LET ctx == IF call.ctx.gin THEN GinContext(header, keys) ELSE call.ctx
       IN call' = [method |-> method, ctx |-> ctx, route |-> route, payload |-> payload]
    /\ LET built == buildURL(serviceClient, route)
           headers == extractHeaders(call'.ctx)
           failed(err) == /\ returned' = [done |-> TRUE, err |-> err, resp |-> FALSE]
                          /\ pc' = "returned"
                          /\ UNCHANGED outbound
       IN IF built.err # "nil"
          THEN failed("failed to build URL")
          ELSE IF payload # NilPayload /\ Marshal(payload) # "nil"
          THEN failed("failed to marshal payload")
          ELSE IF NewRequest(method, built.url) # "nil"
          THEN failed("failed to create request")
          ELSE /\ outbound' = Append(outbound, doRequest(serviceClient, method,
                                                          built.url, payload, headers))
               /\ pc' = "do"
               /\ UNCHANGED returned
    /\ UNCHANGED <<config, header, keys, resp, auth, rate, responseHeader, cancelled, pairing>>
    /\ UNCHANGED <<mw, permissions, idx, uid, gateCalls, gateResults, reply>>

\* The routes of the callers: "", "/api/v1", "api/v1", "/api/v1/",
\* "/api/v1/orders/123", "api/v1/orders", "/api/v1/payments/7".
Routes ==
    {<<"">>, <<"", "api", "v1">>, <<"api", "v1">>, <<"", "api", "v1", "">>,
     <<"", "api", "v1", "orders", "123">>, <<"api", "v1", "orders">>,
     <<"", "api", "v1", "payments", "7">>}

Get == \E route \in Routes : smartRequest("GET", route, NilPayload)

Post == \E route \in Routes, payload \in Payloads : smartRequest("POST", route, payload)

Put == \E route \in Routes, payload \in Payloads : smartRequest("PUT", route, payload)

Delete == \E route \in Routes : smartRequest("DELETE", route, NilPayload)

\* json.Unmarshal(data, &AccessData{}): [err, Allowed]
UnmarshalAccessData(data) ==
    CASE data = "{\"allowed\":true}" -> [err |-> "nil", Allowed |-> TRUE]
      [] data \in {"{\"allowed\":false}", "{}", "null"} -> [err |-> "nil", Allowed |-> FALSE]
      [] OTHER -> [err |-> "json", Allowed |-> FALSE]

\* httpclient.DecodeStandardResponse(resp, &accessData): [err, Allowed]
DecodeStandardResponse(body) ==
    IF ~body.json THEN [err |-> "failed to decode response", Allowed |-> FALSE]
    ELSE IF ~body.success THEN [err |-> "service error", Allowed |-> FALSE]
    ELSE UnmarshalAccessData(body.data)

(***************************************************************************)
(* Permission gate.                                                        *)
(***************************************************************************)
\* The subject of the query is the one the client named in its X-User-ID.
PostAccess_HeaderSubject(userID, permission) ==
    LET named == ParseUint32(inbound.XUserID)
        payload == [user_id |-> IF named.err = "nil" THEN named.val ELSE userID,
                    permission |-> permission]
        built == buildURL(serviceClient, AccessRoute)
    IN IF serviceClient.nil
       THEN [err |-> "service client not initialized", req |-> <<>>]
       ELSE IF built.err # "nil"
       THEN [err |-> "failed to build URL", req |-> <<>>]
       ELSE [err |-> "nil",
             req |-> doRequest(serviceClient, "POST", built.url, payload,
                               extractHeaders(GinContext(header, keys)))]

\* checkUserPermission up to the call of http.Client.Do: [err, req]
PostAccess(userID, permission) ==
    LET payload == [user_id |-> userID, permission |-> permission]
        built == buildURL(serviceClient, AccessRoute)
    IN IF serviceClient.nil
       THEN [err |-> "service client not initialized", req |-> <<>>]
       ELSE IF built.err # "nil"
       THEN [err |-> "failed to build URL", req |-> <<>>]
       ELSE [err |-> "nil",
             req |-> doRequest(serviceClient, "POST", built.url, payload,
                               extractHeaders(GinContext(header, keys)))]

\* checkUserPermission from the answer on: [allowed, err]
checkUserPermission(r) ==
    LET got == doResponse(r)
        decoded == DecodeStandardResponse(got.body)
    IN IF got.err # "nil" THEN [allowed |-> FALSE, err |-> got.err]
       ELSE IF decoded.err # "nil" THEN [allowed |-> FALSE, err |-> decoded.err]
       ELSE [allowed |-> decoded.Allowed, err |-> "nil"]

(***************************************************************************)
(* Authorization middleware.                                               *)
(***************************************************************************)
\* uint(v) of a non-negative int v.
Uint(v) == v

\* The type switch on the value stored under user_id: [err, uid]
ConvertUserID(userID) ==
    CASE userID.type = "uint" -> [err |-> "nil", uid |-> userID.num]
      [] userID.type = "int" -> [err |-> "nil", uid |-> Uint(userID.num)]
      [] userID.type = "string" ->
            LET parsed == ParseUint32(userID.str)
            IN IF parsed.err # "nil"
               THEN [err |-> "invalid_user_id_format", uid |-> 0]
               ELSE [err |-> "nil", uid |-> parsed.val]
      [] OTHER -> [err |-> "invalid_user_id_type", uid |-> 0]

\* The comparison is made with a differently spelled literal.
IsService_Misspelled(authType) ==
    EqString(authType, <<"S", "e", "r", "v", "i", "c", "e">>)

\* authType == "service"
IsService(authType) == EqString(authType, service)

\* Whatever is not a service is taken to be a user.
IsUser_Default(authType) == ~EqString(authType, service)

\* authType == "user"
IsUser(authType) == EqString(authType, user)

\* c.Next(): the rest of the chain runs.
Next_ ==
    /\ handlerRan' = TRUE
    /\ pc' = "done"
    /\ UNCHANGED <<status, message, aborted>>

\* allowed, err := checkUserPermission(c, uid, ps[i]), up to the answer of
\* the authorization service or to the error that comes before any request.
\* results: what the invocations before this one returned.
Check(i, u, ps, results) ==
    LET post == PostAccess(u, ps[i])
    IN /\ gateCalls' = Append(gateCalls, [userID |-> u, permission |-> ps[i]])
       /\ idx' = i
       /\ IF post.err # "nil"
          THEN /\ gateResults' = Append(results, [allowed |-> FALSE, err |-> post.err])
               /\ Reject(500, T("failed_to_validate_permissions"))
               /\ UNCHANGED outbound
          ELSE /\ outbound' = Append(outbound, post.req)
               /\ gateResults' = results
               /\ pc' = "inflight"
               /\ UNCHANGED resp

NoCheck == UNCHANGED <<idx, gateCalls, gateResults, outbound>>

\* The part of the four middlewares from the lookup of user_id on.
UserBranch(ps) ==
    LET userID == keys.user_id
        conv == ConvertUserID(userID)
    IN IF ~Exists(userID)
       THEN Reject(401, T("user_id_not_found")) /\ NoCheck /\ UNCHANGED uid
       ELSE IF conv.err # "nil"
       THEN Reject(401, T(conv.err)) /\ NoCheck /\ UNCHANGED uid
       ELSE /\ uid' = conv.uid
            /\ IF ps = <<>> THEN Next_ /\ NoCheck ELSE Check(1, conv.uid, ps, gateResults)

\* The authType of the request is not looked at.
AuthTypeBranch_UserOnly(ps) == UserBranch(ps)

\* The part of PermissionMiddleware and PermissionAnyMiddleware before it.
AuthTypeBranch(ps) ==
    LET authType == keys.authType
    IN IF ~Exists(authType)
       THEN Reject(401, T("authentication_required")) /\ NoCheck /\ UNCHANGED uid
       ELSE IF IsService(authType)
       THEN Next_ /\ NoCheck /\ UNCHANGED uid
       ELSE IF IsUser(authType)
       THEN UserBranch(ps)
       ELSE Reject(401, T("invalid_authentication_type")) /\ NoCheck /\ UNCHANGED uid

Perms == {"orders:read", "orders:write"}

RECURSIVE SeqsUpTo(_, _)
SeqsUpTo(S, n) ==
    IF n = 0 THEN {<<>>}
    ELSE LET shorter == SeqsUpTo(S, n - 1)
         IN shorter \cup {Append(q, x) : q \in shorter, x \in S}

PermissionLists == SeqsUpTo(Perms, MaxPerms)

Install(name, ps) ==
    /\ pc = "authz"
    /\ mw' = name
    /\ permissions' = ps
    /\ UNCHANGED <<config, header, keys, auth, reply, rate, outcall, responseHeader, cancelled, pairing>>

PermissionMiddleware ==
    \E permission \in Perms :
        Install("PermissionMiddleware", <<permission>>) /\ AuthTypeBranch(<<permission>>)

PermissionAnyMiddleware ==
    \E ps \in PermissionLists :
        Install("PermissionAnyMiddleware", ps) /\ AuthTypeBranch(ps)

RequirePermission ==
    \E permission \in Perms :
        Install("RequirePermission", <<permission>>) /\ UserBranch(<<permission>>)

RequirePermissions ==
    \E ps \in PermissionLists :
        Install("RequirePermissions", ps) /\ UserBranch(ps)

SinglePermission == {"PermissionMiddleware", "RequirePermission"}

\* The loop skips a permission.
NextIndex_Skip(i) == i + 2

\* The index the loop over the permissions goes on with.
NextIndex(i) == i + 1

\* The authorization service answers (or the transport fails) and the
\* middleware goes on from the return of http.Client.Do.
Replies ==
    LET bodies == {[json |-> FALSE, success |-> FALSE, data |-> "missing"]}
                  \cup [json : {TRUE}, success : BOOLEAN,
                        data : {"missing", "null", "{}", "{\"allowed\":true}",
                                "{\"allowed\":false}", "{\"allowed\":\"yes\"}"}]
        errors == {[json |-> FALSE, success |-> FALSE, data |-> "missing"],
                   [json |-> TRUE, success |-> TRUE, data |-> "{\"allowed\":true}"],
                   [json |-> TRUE, success |-> FALSE, data |-> "missing"]}
    IN [transport : {"ok"}, status : {200}, body : bodies]
       \cup [transport : {"ok"}, status : {403, 500}, body : errors]
       \cup [transport : {"connection refused", "timeout"}, status : {0},
             body : {[json |-> FALSE, success |-> FALSE, data |-> "missing"]}]

NoReply ==
    [transport |-> "none", status |-> 0,
     body |-> [json |-> FALSE, success |-> FALSE, data |-> "missing"]]

\* What http.Client.Do returns when the context of its request is done.
Canceled ==
    [transport |-> "context canceled", status |-> 0,
     body |-> [json |-> FALSE, success |-> FALSE, data |-> "missing"]]

\* What http.Client.Do may return for the request req: the error of the
\* request's context once that context is done, else the answer of the
\* remote or a failure of the transport, the client's own timeout included.
DoReplies(req) ==
    IF req.ctx = "request" /\ cancelled THEN {Canceled} ELSE remote

\* The client of the inbound request goes away, or the request times out,
\* while the permission check is in flight.
Cancel ==
    /\ pc = "inflight"
    /\ ~cancelled
    /\ cancelled' = TRUE
    /\ UNCHANGED <<config, header, keys, resp, pc, auth, authz, rate, outcall,
                   responseHeader, pairing>>

AuthServiceReply ==
    /\ pc = "inflight"
    /\ \E r \in DoReplies(outbound[Len(outbound)]) :
        LET res == checkUserPermission(r)
        IN /\ reply' = r
           /\ IF res.err # "nil"
              THEN /\ Reject(500, T("failed_to_validate_permissions"))
                   /\ gateResults' = Append(gateResults, res)
                   /\ UNCHANGED <<idx, gateCalls, outbound>>
              ELSE IF ~res.allowed
              THEN /\ Reject(403, [key |-> "insufficient_permissions",
                                   arg |-> permissions[idx]])
                   /\ gateResults' = Append(gateResults, res)
                   /\ UNCHANGED <<idx, gateCalls, outbound>>
              ELSE IF mw \in SinglePermission \/ NextIndex(idx) > Len(permissions)
              THEN /\ Next_
                   /\ gateResults' = Append(gateResults, res)
                   /\ UNCHANGED <<idx, gateCalls, outbound>>
              ELSE Check(NextIndex(idx), uid, permissions, Append(gateResults, res))
    /\ UNCHANGED <<config, header, keys, auth, mw, permissions, uid, rate, outcall, responseHeader, cancelled, pairing>>

\* What http.Client.Do may come back with for a call of the client: the
\* answers of a peer, of any status, and the failures of the transport.
ClientReplies ==
    {a \in Replies : a.body = NoReply.body}
    \cup [transport : {"ok"}, status : {204, 302, 399, 400, 404}, body : {NoReply.body}]

\* http.Client.Do returns and doRequest goes on to its end.
Do ==
    /\ pc = "do"
    /\ \E r \in ClientReplies :
        /\ reply' = r
        /\ returned' = [done |-> TRUE, err |-> doResponse(r).err,
                        resp |-> doResponse(r).resp]
    /\ pc' = "returned"
    /\ UNCHANGED <<config, header, keys, resp, auth, rate, call, responseHeader, cancelled, pairing>>
    /\ UNCHANGED <<mw, permissions, idx, uid, gateCalls, gateResults, outbound>>

(***************************************************************************)
(* Authorization middleware of pkg/middleware.                             *)
(***************************************************************************)
\* utils.AuthServiceURL + "/api/v1/auth/access"
AccessURL == <<env.AUTH_SERVICE_URL, "api", "v1", "auth", "access">>

\* The request checkUserPermission of pkg/middleware has httpclient.PostJSON
\* send: the payload and the two headers of the service.
PostJSON(url, payload, headers) ==
    [method |-> "POST", url |-> url, body |-> payload, ctx |-> "background",
     header |-> headers]

\* checkUserPermission of pkg/middleware from the answer on: [allowed, err]
pkgCheckUserPermission(r) ==
    IF r.transport # "ok" THEN [allowed |-> FALSE, err |-> "request failed"]
    ELSE IF ~r.body.json THEN [allowed |-> FALSE, err |-> "json"]
    ELSE IF ~r.body.success THEN [allowed |-> FALSE, err |-> "nil"]
    ELSE IF r.body.data = "missing" THEN [allowed |-> FALSE, err |-> "nil"]
    ELSE [allowed |-> UnmarshalAccessData(r.body.data).Allowed,
          err |-> UnmarshalAccessData(r.body.data).err]

\* allowed, err := checkUserPermission(uid, ps[i]), up to the answer of the
\* authorization service.
PkgCheck(i, u, ps, results) ==
    /\ gateCalls' = Append(gateCalls, [userID |-> u, permission |-> ps[i]])
    /\ idx' = i
    /\ outbound' = Append(outbound,
            PostJSON(AccessURL, [user_id |-> u, permission |-> ps[i]],
                     ("X-Service-ID" :> <<env.SERVICE_ID>>)
                     @@ ("X-Service-Secret" :> <<ServiceSecret>>)))
    /\ gateResults' = results
    /\ pc' = "pkg inflight"
    /\ UNCHANGED resp

\* RequirePermission and RequirePermissions of pkg/middleware up to the
\* first check.
PkgUserBranch(ps) ==
    LET userID == keys.user_id
        conv == ConvertUserID(userID)
    IN IF ~Exists(userID)
       THEN Reject(401, T("user_id_not_found")) /\ NoCheck /\ UNCHANGED uid
       ELSE IF conv.err # "nil"
       THEN Reject(401, T(conv.err)) /\ NoCheck /\ UNCHANGED uid
       ELSE /\ uid' = conv.uid
            /\ IF ps = <<>> THEN Next_ /\ NoCheck ELSE PkgCheck(1, conv.uid, ps, gateResults)

PkgRequirePermission ==
    \E permission \in Perms :
        Install("pkg.RequirePermission", <<permission>>) /\ PkgUserBranch(<<permission>>)

PkgRequirePermissions ==
    \E ps \in PermissionLists :
        Install("pkg.RequirePermissions", ps) /\ PkgUserBranch(ps)

\* A method is called on a nil error: the goroutine panics.  A chain with
\* gin.Recovery answers 500 and aborts, another one lets net/http close the
\* connection without an answer.
Panic ==
    /\ \E recovered \in BOOLEAN :
        /\ status' = (IF recovered THEN 500 ELSE 0)
        /\ aborted' = recovered
    /\ message' = NoMessage
    /\ pc' = "panic"
    /\ UNCHANGED handlerRan

\* fmt.Println(err.Error()) of RequirePermission: whether it panics
Println(err) == err = "nil"

\* The handlers of pkg/middleware from the return of checkUserPermission on.
PkgReply ==
    /\ pc = "pkg inflight"
    /\ \E r \in remote :
        LET res == pkgCheckUserPermission(r)
            results == Append(gateResults, res)
        IN /\ reply' = r
           /\ IF mw = "pkg.RequirePermission" /\ Println(res.err)
              THEN /\ Panic
                   /\ gateResults' = results
                   /\ UNCHANGED <<idx, gateCalls, outbound>>
              ELSE IF res.err # "nil"
              THEN /\ Reject(500, T("failed_to_validate_permissions"))
                   /\ gateResults' = results
                   /\ UNCHANGED <<idx, gateCalls, outbound>>
              ELSE IF ~res.allowed
              THEN /\ Reject(403, [key |-> "insufficient_permissions",
                                   arg |-> permissions[idx]])
                   /\ gateResults' = results
                   /\ UNCHANGED <<idx, gateCalls, outbound>>
              ELSE IF mw = "pkg.RequirePermission" \/ NextIndex(idx) > Len(permissions)
              THEN /\ Next_
                   /\ gateResults' = results
                   /\ UNCHANGED <<idx, gateCalls, outbound>>
              ELSE PkgCheck(NextIndex(idx), uid, permissions, results)
    /\ UNCHANGED <<config, header, keys, auth, mw, permissions, uid, rate, outcall,
                   responseHeader, cancelled, pairing>>

\* No middleware has run to its end yet.
NoFirst ==
    [round |-> 1, mw |-> "", permissions |-> <<>>, status |-> 0, message |-> NoMessage,
     calls |-> 0, handlerRan |-> FALSE, aborted |-> FALSE, panicked |-> FALSE]

NoCall ==
    /\ call = [method |-> "", ctx |-> StdContext(NoValues), route |-> <<>>,
               payload |-> NilPayload]
    /\ returned = [done |-> FALSE, err |-> "nil", resp |-> FALSE]
    /\ responseHeader = <<>>
    /\ cancelled = FALSE
    /\ remote = Replies
    /\ first = NoFirst

(***************************************************************************)
(* Rate limiter.                                                           *)
(*                                                                         *)
(* Time is counted in ticks of the clock.  The program's tick is the       *)
(* nanosecond and time.Minute is 6 * 10^10 of them; the model's clock is   *)
(* coarser and Minute is the number of its ticks in time.Minute.  A count  *)
(* of tokens of a limiter is kept as credit, the time it takes to refill   *)
(* them: one token is limit.every ticks of credit.                         *)
(***************************************************************************)
Minute == 2
MaxCeiling == 3

\* 5 * time.Minute and 10 * time.Minute
SweepPeriod == 5 * Minute
IdleThreshold == 10 * Minute

\* The model follows the limiter until a client can have gone stale, for
\* MaxEvents events: admission checks and advances of the clock.
Horizon == IdleThreshold + SweepPeriod
MaxEvents == MaxCeiling + 2

IPs == {"10.0.0.1", "10.0.0.2"}
Handlers == {"h1", "h2"}

Min(a, b) == IF a < b THEN a ELSE b

\* rate.Inf: every event is allowed.
Inf == [inf |-> TRUE, every |-> 0]

\* rate.Every(interval): one event every interval, rate.Inf when the
\* interval is not positive.
Every(interval) ==
    IF interval <= 0 THEN Inf ELSE [inf |-> FALSE, every |-> interval]

\* rate.NewLimiter(r, b): a bucket of b tokens, full.
NewLimiter(r, b) ==
    [limit |-> r, burst |-> b, credit |-> b * r.every, last |-> 0]

\* Limiter.advance(t): the credit at time t, at most the burst.
advance(lim, t) ==
    Min(lim.burst * lim.limit.every, lim.credit + (t - lim.last))

\* Limiter.Allow() at time t: [ok, lim], the verdict and the limiter after.
Allow(lim, t) ==
    IF lim.limit.inf THEN [ok |-> TRUE, lim |-> lim]
    ELSE LET credit == advance(lim, t)
         IN IF credit >= lim.limit.every
            THEN [ok |-> TRUE,
                  lim |-> [lim EXCEPT !.credit = credit - lim.limit.every, !.last = t]]
            ELSE [ok |-> FALSE, lim |-> lim]

\* a / b of Go for a >= 0 and b # 0: the quotient truncated toward zero.
Quo(a, b) == IF b > 0 THEN a \div b ELSE 0 - (a \div (0 - b))

NoClient == [exists |-> FALSE, limiter |-> 0, lastSeen |-> 0]

\* The mutex is unlocked.
Free == "free"

\* The lock stays with the handler h until it returns, as with a deferred
\* mu.Unlock().
Unlock_Deferred(h) == h

\* mu.Unlock() of the handler h: the holder of the mutex after it
Unlock(h) == Free

\* A map that is never swept has no limiter for the IP yet.
NoLimiter == [made |-> FALSE, lim |-> NewLimiter(Inf, 0)]

Idle == [pc |-> "idle", ip |-> "", limiter |-> 0, since |-> 0]

\* A handler whose request is with the rest of the chain, inside c.Next(),
\* blocked in a permission check.
Downstream == [pc |-> "next", ip |-> "", limiter |-> 0, since |-> 0]

RECURSIVE Checks(_)
Checks(n) == IF n = 0 THEN 0 ELSE Len(limiters[n].checks) + Checks(n - 1)

\* The checks begun: those made and those between the map and Allow.
Begun ==
    Checks(Len(limiters)) + Cardinality({h \in Handlers : handlers[h].pc = "allow"})

Events == Begun + advances

\* The handler of RateLimitMiddleware from c.ClientIP() to mu.Unlock(): the
\* mutex is taken, the client of the IP is created when the map has none,
\* its lastSeen is set, its limiter is taken and the mutex is released.  The
\* division by a requestsPerMinute of 0 panics with the mutex held.
RateLimitMiddleware(h) ==
    /\ pc = "serving"
    /\ handlers[h].pc = "idle"
    /\ Events < MaxEvents
    /\ mu = Free
    /\ \E ip \in IPs :
        LET exists == clients[ip].exists
            limiter == IF exists THEN clients[ip].limiter ELSE Len(limiters) + 1
            made == NewLimiter(Every(Quo(Minute, requestsPerMinute)), requestsPerMinute)
        IN IF ~exists /\ requestsPerMinute = 0
           THEN /\ mu' = h
                /\ handlers' = [handlers EXCEPT ![h] =
                                 [pc |-> "panic", ip |-> ip, limiter |-> 0, since |-> now]]
                /\ UNCHANGED <<clients, limiters, unswept>>
           ELSE /\ limiters' =
                     IF exists THEN limiters
                     ELSE Append(limiters,
                                 [lim |-> made, ip |-> ip, created |-> now,
                                  admittedAt |-> NoTime, checks |-> <<>>])
                /\ clients' = [clients EXCEPT ![ip] =
                                 [exists |-> TRUE, limiter |-> limiter, lastSeen |-> now]]
                /\ unswept' = IF unswept[ip].made THEN unswept
                              ELSE [unswept EXCEPT ![ip] = [made |-> TRUE, lim |-> made]]
                /\ handlers' = [handlers EXCEPT ![h] =
                                 [pc |-> "allow", ip |-> ip, limiter |-> limiter,
                                  since |-> now]]
                /\ mu' = Unlock(h)
    /\ UNCHANGED <<config, header, keys, resp, pc, auth, authz, outcall, responseHeader, cancelled, pairing>>
    /\ UNCHANGED <<requestsPerMinute, wake, advances>>

\* The handler from limiter.Allow() on: 429 and c.Abort(), or c.Next(), in
\* which the rest of the chain runs; c.Next() does not return when the
\* chain checks a permission with an authorization service that never
\* answers.  The check is also made on the limiter the IP has in a map that
\* is never swept.
LimiterAllow(h) ==
    /\ pc = "serving"
    /\ handlers[h].pc = "allow"
    /\ LET limiter == handlers[h].limiter
           ip == handlers[h].ip
           allowed == Allow(limiters[limiter].lim, now)
           kept == Allow(unswept[ip].lim, now)
           check == [elapsed |-> Min(now - limiters[limiter].created, Minute),
                     allowed |-> allowed.ok,
                     unswept |-> kept.ok,
                     delay |-> now - handlers[h].since,
                     status |-> IF allowed.ok THEN 0 ELSE 429,
                     aborted |-> ~allowed.ok,
                     handlerRan |-> allowed.ok]
       IN /\ limiters' = [limiters EXCEPT
                            ![limiter].lim = allowed.lim,
                            ![limiter].admittedAt = IF allowed.ok THEN now ELSE @,
                            ![limiter].checks = Append(@, check)]
          /\ unswept' = [unswept EXCEPT ![ip].lim = kept.lim]
          /\ handlers' = [handlers EXCEPT ![h] =
                           IF allowed.ok /\ remote = {} THEN Downstream ELSE Idle]
    /\ UNCHANGED <<config, header, keys, resp, pc, auth, authz, outcall, responseHeader, cancelled, pairing>>
    /\ UNCHANGED <<requestsPerMinute, clients, wake, advances, mu>>

\* The client is kept for one period of the sweep only.
Stale_Early(client, t) == client.exists /\ t - client.lastSeen > SweepPeriod

\* The client is kept for twice the time.
Stale_Late(client, t) == client.exists /\ t - client.lastSeen > 2 * IdleThreshold

\* time.Since(client.lastSeen) > 10*time.Minute
Stale(client, t) == client.exists /\ t - client.lastSeen > IdleThreshold

\* One pass of the cleanup goroutine, from the return of time.Sleep to
\* mu.Unlock(), and the beginning of its next sleep.
Cleanup ==
    /\ pc = "serving"
    /\ now = wake
    /\ mu = Free
    /\ clients' = [ip \in IPs |->
                     IF Stale(clients[ip], now) THEN NoClient ELSE clients[ip]]
    /\ wake' = now + SweepPeriod
    /\ UNCHANGED <<config, header, keys, resp, pc, auth, authz, outcall, responseHeader, cancelled, pairing>>
    /\ UNCHANGED <<requestsPerMinute, limiters, handlers, advances, mu, unswept>>

\* Time passes, by one tick or until the cleanup goroutine wakes, which is
\* not late by a tick of the clock.
Tick ==
    /\ pc = "serving"
    /\ Events < MaxEvents
    /\ now < wake
    /\ \E t \in {now + 1, wake} :
        /\ t <= Horizon
        /\ now' = t
    /\ advances' = advances + 1
    /\ UNCHANGED <<ServiceSecret, JWTSecret, jwtSecret, serviceClient, env, inbound>>
    /\ UNCHANGED <<header, keys, resp, pc, auth, authz, outcall, responseHeader, cancelled, pairing>>
    /\ UNCHANGED <<requestsPerMinute, clients, limiters, handlers, wake, mu, unswept>>

\* No rate limiter is installed.
NoRateLimiter ==
    /\ requestsPerMinute = 1
    /\ clients = [ip \in IPs |-> NoClient]
    /\ limiters = <<>>
    /\ handlers = [h \in Handlers |-> Idle]
    /\ wake = 0
    /\ advances = 0
    /\ mu = Free
    /\ unswept = [ip \in IPs |-> NoLimiter]

(***************************************************************************)
(* Specifications.                                                         *)
(***************************************************************************)
Hosts ==
    {<<>>, ("auth" :> <<"http://auth">>), ("auth" :> <<"http://auth", "">>),
     ("orders" :> <<"http://orders">>)}

ServiceClients ==
    {NilClient}
    \cup {NewServiceClient("orders-service", "peer-secret", cfg) : cfg \in Hosts}

\* The state of a request before the chain runs, with the process-wide
\* configuration it meets.
Fresh ==
    /\ now = Clock
    /\ keys = [authType |-> Absent, user_id |-> Absent, request_id |-> Absent]
    /\ status = 0
    /\ message = NoMessage
    /\ aborted = FALSE
    /\ handlerRan = FALSE
    /\ entry = ""
    /\ tokenCalls = <<>>
    /\ mw = ""
    /\ permissions = <<>>
    /\ idx = 0
    /\ uid = 0
    /\ gateCalls = <<>>
    /\ gateResults = <<>>
    /\ outbound = <<>>
    /\ reply = NoReply
    /\ NoRateLimiter
    /\ NoCall

Requests(tokens) ==
    [XServiceSecret : {"", "svc-secret", "wrong"},
     Authorization : AuthorizationHeaders(tokens),
     XUserID : {<<>>, <<"9", "9">>},
     XRequestID : {<<>>},
     AcceptLanguage : {<<>>}]

Envs ==
    [SERVICE_ID : {"", "orders-service"}, SERVICE_SECRET : {"", "svc-secret"},
     AUTH_SERVICE_URL : {"", "http://auth"}, JWT_SECRET : {"", "k1"}]

\* Identity classification alone, over every credential of the bounds, in
\* a process that calls LoadEnv first or whose package variables were
\* assigned directly.
InitAuth ==
    /\ Fresh
    /\ jwtSecret \in {<<>>, <<"">>, <<"k2">>}
    /\ serviceClient = NilClient
    /\ header \in Requests(JWTs)
    /\ inbound = header
    /\ \/ /\ pc = "boot"
          /\ env \in Envs
          /\ ServiceSecret = ""
          /\ JWTSecret = ""
       \/ /\ pc = "auth"
          /\ env = NoEnv
          /\ ServiceSecret \in {"", "svc-secret"}
          /\ JWTSecret \in {"", "k1"}

NextAuth ==
    \/ LoadEnv
    \/ SmartAuthMiddleware
    \/ AuthMiddleware
    \/ ServiceAuthMiddleware

SpecAuth == InitAuth /\ [][NextAuth]_vars

\* What handlers before the authorization middleware may have stored with
\* c.Set: any authType and any user_id, of any dynamic type.
AuthTypes ==
    {Absent, GoString(service), GoString(user), GoString(admin), GoNumber("int", 1)}

UserIDs ==
    {Absent}
    \cup {GoNumber(t, n) : t \in {"uint", "int", "uint64", "float64"}, n \in Subjects}
    \cup {GoString(s) : s \in {<<"1">>, <<"0", "2">>, <<>>, <<"x">>, <<"-", "1">>,
                                <<"4", "2", "9", "4", "9", "6", "7", "2", "9", "6">>}}

\* The authorization stage alone, entered with any context.
InitAuthz ==
    /\ now = Clock
    /\ status = 0
    /\ message = NoMessage
    /\ aborted = FALSE
    /\ handlerRan = FALSE
    /\ mw = ""
    /\ permissions = <<>>
    /\ idx = 0
    /\ uid = 0
    /\ gateCalls = <<>>
    /\ gateResults = <<>>
    /\ outbound = <<>>
    /\ reply = NoReply
    /\ NoRateLimiter
    /\ NoCall
    /\ pc = "authz"
    /\ entry = "upstream"
    /\ tokenCalls = <<>>
    /\ env = NoEnv
    /\ ServiceSecret = "svc-secret"
    /\ JWTSecret = "k1"
    /\ jwtSecret = <<>>
    /\ serviceClient \in ServiceClients
    /\ header \in [XServiceSecret : {""}, Authorization : {NoHeader},
                    XUserID : {<<>>, <<"9", "9">>}, XRequestID : {<<"req-1">>},
                    AcceptLanguage : {<<>>}]
    /\ inbound = header
    /\ keys \in [authType : AuthTypes, user_id : UserIDs, request_id : {Absent}]

NextAuthz ==
    \/ PermissionMiddleware
    \/ PermissionAnyMiddleware
    \/ RequirePermission
    \/ RequirePermissions
    \/ AuthServiceReply
    \/ Cancel

SpecAuthz == InitAuthz /\ [][NextAuthz]_vars

\* The whole chain: an authentication middleware, then an authorization
\* middleware, then the route handler.
Init ==
    /\ Fresh
    /\ pc = "auth"
    /\ env = NoEnv
    /\ ServiceSecret \in {"", "svc-secret"}
    /\ JWTSecret \in {"", "k1"}
    /\ jwtSecret \in {<<>>, <<"k2">>}
    /\ serviceClient \in
            {NilClient,
             NewServiceClient("orders-service", "peer-secret", ("auth" :> <<"http://auth">>))}
    /\ header \in Requests({t \in JWTs : t.nbf = NoTime})
    /\ inbound = header

Next ==
    \/ SmartAuthMiddleware
    \/ AuthMiddleware
    \/ ServiceAuthMiddleware
    \/ NextAuthz

Spec == Init /\ [][Next]_vars

\* The rate limiter alone: RateLimitMiddleware(requestsPerMinute) was
\* called and no request has come since; the cleanup goroutine is anywhere
\* in its sleep.
InitRate ==
    /\ ServiceSecret = "svc-secret"
    /\ JWTSecret = "k1"
    /\ jwtSecret = <<>>
    /\ serviceClient = NilClient
    /\ env = NoEnv
    /\ header = [XServiceSecret |-> "", Authorization |-> NoHeader, XUserID |-> <<>>,
                 XRequestID |-> <<>>, AcceptLanguage |-> <<>>]
    /\ inbound = header
    /\ keys = [authType |-> Absent, user_id |-> Absent, request_id |-> Absent]
    /\ status = 0
    /\ message = NoMessage
    /\ aborted = FALSE
    /\ handlerRan = FALSE
    /\ entry = ""
    /\ tokenCalls = <<>>
    /\ mw = ""
    /\ permissions = <<>>
    /\ idx = 0
    /\ uid = 0
    /\ gateCalls = <<>>
    /\ gateResults = <<>>
    /\ outbound = <<>>
    /\ reply = NoReply
    /\ NoCall
    /\ pc = "serving"
    /\ now = 0
    /\ requestsPerMinute \in 1 .. MaxCeiling
    /\ clients = [ip \in IPs |-> NoClient]
    /\ limiters = <<>>
    /\ handlers = [h \in Handlers |-> Idle]
    /\ wake \in {1, SweepPeriod}
    /\ advances = 0
    /\ mu = Free
    /\ unswept = [ip \in IPs |-> NoLimiter]

NextRate ==
    \/ \E h \in Handlers : RateLimitMiddleware(h)
    \/ \E h \in Handlers : LimiterAllow(h)
    \/ Cleanup
    \/ Tick

SpecRate == InitRate /\ [][NextRate]_vars

\* The host tables of the callers: none, a host, a host written with a
\* trailing slash, a host that is no URL.
ClientHosts ==
    {<<>>,
     ("orders" :> <<"http://orders">>) @@ ("auth" :> <<"http://auth">>),
     ("orders" :> <<"http://orders", "">>),
     ("orders" :> <<"http://bad host">>)}

\* What a caller may have stored in a standard context.
Values ==
    [user_id : {Absent, GoNumber("uint", 2), GoNumber("int", 2), GoString(<<"2">>)},
     request_id : {Absent, GoString(<<"req-2">>), GoString(<<>>), GoNumber("int", 7)}]

\* The service client alone: a client made by NewServiceClient is called once,
\* with the gin context of any inbound request or with a standard context.
InitClient ==
    /\ now = Clock
    /\ env = NoEnv
    /\ ServiceSecret = "svc-secret"
    /\ JWTSecret = "k1"
    /\ jwtSecret = <<>>
    /\ serviceClient \in {NewServiceClient("orders-service", "peer-secret", cfg) :
                             cfg \in ClientHosts}
    /\ status = 0
    /\ message = NoMessage
    /\ aborted = FALSE
    /\ handlerRan = FALSE
    /\ entry = ""
    /\ tokenCalls = <<>>
    /\ mw = ""
    /\ permissions = <<>>
    /\ idx = 0
    /\ uid = 0
    /\ gateCalls = <<>>
    /\ gateResults = <<>>
    /\ outbound = <<>>
    /\ reply = NoReply
    /\ NoRateLimiter
    /\ returned = [done |-> FALSE, err |-> "nil", resp |-> FALSE]
    /\ responseHeader = <<>>
    /\ cancelled = FALSE
    /\ remote = Replies
    /\ first = NoFirst
    /\ \/ /\ header \in [XServiceSecret : {"", "svc-secret", "inbound-secret"},
                          Authorization : {NoHeader},
                          XUserID : {<<>>, <<"9", "9">>},
                          XRequestID : {<<>>, <<"req-1">>},
                          AcceptLanguage : {<<>>, <<"ar">>}]
          /\ keys \in [authType : {Absent},
                        user_id : {Absent, GoNumber("uint", 1), GoNumber("int", 1)},
                        request_id : {Absent}]
          /\ pc \in {"requestid", "client"}
          /\ call = [method |-> "", ctx |-> GinContext(header, keys), route |-> <<>>,
                     payload |-> NilPayload]
       \/ /\ header = NoRequestHeader
          /\ keys = NoKeys
          /\ pc = "client"
          /\ \E v \in Values :
                call = [method |-> "", ctx |-> StdContext(v), route |-> <<>>,
                        payload |-> NilPayload]
    /\ inbound = header

NextClient ==
    \/ RequestIDMiddleware
    \/ Get
    \/ Post
    \/ Put
    \/ Delete
    \/ Do

SpecClient == InitClient /\ [][NextClient]_vars

\* What a middleware came to: the response, the number of its gate calls
\* and its decision to proceed or to abort.
Outcome ==
    [status |-> status, message |-> message, calls |-> Len(gateCalls),
     handlerRan |-> handlerRan, aborted |-> aborted, panicked |-> pc = "panic"]

\* The single-permission middleware ran to its end: what it came to is kept
\* and the same request, with the same answer of the authorization service
\* ahead of it, is handed to the multi-permission one.
Again ==
    /\ first.round = 1
    /\ pc \in {"done", "panic"}
    /\ first' = [round |-> 2, mw |-> mw, permissions |-> permissions] @@ Outcome
    /\ status' = 0
    /\ message' = NoMessage
    /\ aborted' = FALSE
    /\ handlerRan' = FALSE
    /\ pc' = "authz"
    /\ mw' = ""
    /\ permissions' = <<>>
    /\ idx' = 0
    /\ uid' = 0
    /\ gateCalls' = <<>>
    /\ gateResults' = <<>>
    /\ outbound' = <<>>
    /\ reply' = NoReply
    /\ UNCHANGED <<config, header, keys, auth, rate, outcall, responseHeader,
                   cancelled, remote>>

\* The single-permission middlewares, run first.
Single ==
    /\ first.round = 1
    /\ PermissionMiddleware \/ PkgRequirePermission

\* The multi-permission middleware of the same family, with the one
\* permission the first was given.
Multi ==
    /\ first.round = 2
    /\ permissions' = first.permissions
    /\ \/ first.mw = "PermissionMiddleware" /\ PermissionAnyMiddleware
       \/ first.mw = "pkg.RequirePermission" /\ PkgRequirePermissions

\* The single-permission and the multi-permission middleware of a family,
\* one after the other on the same request context and with the same answer
\* of the authorization service.
InitVariants ==
    /\ now = Clock
    /\ status = 0
    /\ message = NoMessage
    /\ aborted = FALSE
    /\ handlerRan = FALSE
    /\ mw = ""
    /\ permissions = <<>>
    /\ idx = 0
    /\ uid = 0
    /\ gateCalls = <<>>
    /\ gateResults = <<>>
    /\ outbound = <<>>
    /\ reply = NoReply
    /\ NoRateLimiter
    /\ call = [method |-> "", ctx |-> StdContext(NoValues), route |-> <<>>,
               payload |-> NilPayload]
    /\ returned = [done |-> FALSE, err |-> "nil", resp |-> FALSE]
    /\ responseHeader = <<>>
    /\ cancelled = FALSE
    /\ pc = "authz"
    /\ entry = "upstream"
    /\ tokenCalls = <<>>
    /\ env = [SERVICE_ID |-> "orders-service", SERVICE_SECRET |-> "svc-secret",
              AUTH_SERVICE_URL |-> "http://auth", JWT_SECRET |-> "k1"]
    /\ ServiceSecret = "svc-secret"
    /\ JWTSecret = "k1"
    /\ jwtSecret = <<>>
    /\ serviceClient \in
            {NilClient,
             NewServiceClient("orders-service", "peer-secret", ("auth" :> <<"http://auth">>))}
    /\ header = [XServiceSecret |-> "", Authorization |-> NoHeader, XUserID |-> <<>>,
                 XRequestID |-> <<"req-1">>, AcceptLanguage |-> <<>>]
    /\ inbound = header
    /\ keys \in [authType : AuthTypes, user_id : UserIDs, request_id : {Absent}]
    /\ remote \in {{r} : r \in Replies}
    /\ first = NoFirst

NextVariants ==
    \/ Single
    \/ Multi
    \/ AuthServiceReply
    \/ PkgReply
    \/ Again

SpecVariants == InitVariants /\ [][NextVariants]_vars

\* The rate limiter with its mutex, for a ceiling that is negative, zero
\* or positive, in front of a chain whose permission checks wait for an
\* authorization service that never answers.
InitLock ==
    /\ ServiceSecret = "svc-secret"
    /\ JWTSecret = "k1"
    /\ jwtSecret = <<>>
    /\ serviceClient = NilClient
    /\ env = NoEnv
    /\ header = NoRequestHeader
    /\ inbound = header
    /\ keys = NoKeys
    /\ status = 0
    /\ message = NoMessage
    /\ aborted = FALSE
    /\ handlerRan = FALSE
    /\ entry = ""
    /\ tokenCalls = <<>>
    /\ mw = ""
    /\ permissions = <<>>
    /\ idx = 0
    /\ uid = 0
    /\ gateCalls = <<>>
    /\ gateResults = <<>>
    /\ outbound = <<>>
    /\ reply = NoReply
    /\ call = [method |-> "", ctx |-> StdContext(NoValues), route |-> <<>>,
               payload |-> NilPayload]
    /\ returned = [done |-> FALSE, err |-> "nil", resp |-> FALSE]
    /\ responseHeader = <<>>
    /\ cancelled = FALSE
    /\ remote = {}
    /\ first = NoFirst
    /\ pc = "serving"
    /\ now = 0
    /\ requestsPerMinute \in {0 - 1, 0, 1}
    /\ clients = [ip \in IPs |-> NoClient]
    /\ limiters = <<>>
    /\ handlers = [h \in Handlers |-> Idle]
    /\ wake \in {1, SweepPeriod}
    /\ advances = 0
    /\ mu = Free
    /\ unswept = [ip \in IPs |-> NoLimiter]

SpecLock == InitLock /\ [][NextRate]_vars

(***************************************************************************)
(* Properties.                                                             *)
(***************************************************************************)
\* The token string the classifier hands to parseJWTToken, and its verdict.
Bearer == TrimPrefix(header.Authorization, "Bearer ")
IsBearer == header.Authorization # NoHeader /\ Bearer # header.Authorization
Parsed == parseJWTToken(Bearer, Secret, now)
Token == header.Authorization.credentials

Classified(by) == entry = by /\ pc # "auth"

\* C1: a request to SmartAuthMiddleware that carries the service-secret
\* header with the configured service secret is passed on tagged
\* authType = "service", with no user_id stored, whatever its Authorization
\* header is; it is never tagged "user".
C1_ServicePriority ==
    (Classified("SmartAuthMiddleware")
     /\ header.XServiceSecret # ""
     /\ header.XServiceSecret = ServiceSecret)
    => /\ EqString(keys.authType, service)
       /\ ~Exists(keys.user_id)
       /\ ~aborted
       /\ status = 0
       /\ pc = "authz"

\* C1 witness: the right service secret together with a bearer token that
\* parseJWTToken accepts, classified as a service.
C1_Witness ==
    /\ Classified("SmartAuthMiddleware")
    /\ header.XServiceSecret # ""
    /\ header.XServiceSecret = ServiceSecret
    /\ IsBearer
    /\ Secret # ""
    /\ Parsed.err = "nil"
    /\ EqString(keys.authType, service)

AcceptedAsService ==
    /\ ~aborted
    /\ status = 0
    /\ entry = "SmartAuthMiddleware" => EqString(keys.authType, service)

\* C2: SmartAuthMiddleware and ServiceAuthMiddleware accept a request as a
\* peer service exactly when its service-secret header is non-empty and
\* equal to the configured secret; a non-empty header that differs is
\* answered 401 "invalid_service_credentials" with nothing stored, whatever
\* bearer token comes with it, and an empty header never authenticates as a
\* service, also when the configured secret is empty.
C2_ServiceIff ==
    (Classified("SmartAuthMiddleware") \/ Classified("ServiceAuthMiddleware"))
    => /\ AcceptedAsService
          <=> (header.XServiceSecret # "" /\ header.XServiceSecret = ServiceSecret)
       /\ (header.XServiceSecret # "" /\ header.XServiceSecret # ServiceSecret)
          => /\ status = 401
             /\ message = T("invalid_service_credentials")
             /\ aborted
             /\ ~handlerRan
             /\ keys = [authType |-> Absent, user_id |-> Absent, request_id |-> Absent]

\* C2 witness: a wrong service secret next to a bearer token that would
\* have been accepted, answered 401.
C2_Witness ==
    /\ Classified("SmartAuthMiddleware")
    /\ header.XServiceSecret = "wrong"
    /\ IsBearer
    /\ Secret # ""
    /\ Parsed.err = "nil"
    /\ status = 401

Entered(names) == mw \in names

NoIdentity ==
    \/ ~Exists(keys.authType)
    \/ (~EqString(keys.authType, service) /\ ~EqString(keys.authType, user))
    \/ (EqString(keys.authType, user) /\ ~Exists(keys.user_id))

\* C3: PermissionMiddleware and PermissionAnyMiddleware answer 401, abort
\* the chain and never call the permission gate when the context has no
\* authType, an authType that is neither "service" nor "user", or authType
\* "user" without a user_id.
C3_FailClosed ==
    (Entered({"PermissionMiddleware", "PermissionAnyMiddleware"}) /\ NoIdentity)
    => /\ pc = "done"
       /\ status = 401
       /\ aborted
       /\ ~handlerRan
       /\ gateCalls = <<>>
       /\ outbound = <<>>

\* C3 witness: an authType that is neither "service" nor "user" next to a
\* well-typed user_id, rejected by PermissionAnyMiddleware.
C3_Witness ==
    /\ mw = "PermissionAnyMiddleware"
    /\ Len(permissions) > 0
    /\ EqString(keys.authType, admin)
    /\ keys.user_id.type = "uint"
    /\ status = 401

Determined(res) == res.err = "nil"

\* C4: for a user request PermissionAnyMiddleware (and RequirePermissions)
\* call the permission gate for the required permissions in their order,
\* once for each position, stop at the first call that is denied or fails,
\* let the request through only when every permission was allowed, and a
\* 403 names the permission whose check was denied.
C4_OrderedAnd ==
    ((mw = "PermissionAnyMiddleware" /\ EqString(keys.authType, user))
     \/ mw = "RequirePermissions")
    => /\ Len(gateCalls) <= Len(permissions)
       /\ \A i \in 1 .. Len(gateCalls) :
             gateCalls[i] = [userID |-> uid, permission |-> permissions[i]]
       /\ Len(gateResults) <= Len(gateCalls)
       /\ Len(gateCalls) <= Len(gateResults) + 1
       /\ \A i \in 1 .. Len(gateResults) :
             (~Determined(gateResults[i]) \/ ~gateResults[i].allowed)
             => (i = Len(gateCalls) /\ pc = "done" /\ aborted /\ ~handlerRan)
       /\ handlerRan
          => /\ Len(gateResults) = Len(permissions)
             /\ \A i \in 1 .. Len(permissions) :
                   Determined(gateResults[i]) /\ gateResults[i].allowed
       /\ status = 403
          => /\ gateResults # <<>>
             /\ gateResults[Len(gateResults)] = [allowed |-> FALSE, err |-> "nil"]
             /\ message = [key |-> "insufficient_permissions",
                           arg |-> permissions[Len(gateResults)]]

\* C4 witness: two different permissions, the first allowed and the second
\* denied.
C4_Witness ==
    /\ mw = "PermissionAnyMiddleware"
    /\ EqString(keys.authType, user)
    /\ Len(permissions) = 2
    /\ permissions[1] # permissions[2]
    /\ Len(gateResults) = 2
    /\ status = 403
    /\ message.arg = permissions[2]

\* C5: a request tagged authType = "service" passes PermissionMiddleware
\* and PermissionAnyMiddleware for every permission list and every value
\* (or absence) of user_id, and the permission gate is never called.
C5_ServiceBypass ==
    (Entered({"PermissionMiddleware", "PermissionAnyMiddleware"})
     /\ EqString(keys.authType, service))
    => /\ pc = "done"
       /\ handlerRan
       /\ ~aborted
       /\ status = 0
       /\ gateCalls = <<>>
       /\ outbound = <<>>

\* C5 witness: a service request with a user_id no conversion accepts and
\* two required permissions, passed on.
C5_Witness ==
    /\ mw = "PermissionAnyMiddleware"
    /\ Len(permissions) = 2
    /\ EqString(keys.authType, service)
    /\ keys.user_id = GoString(<<"x">>)
    /\ handlerRan

\* The middleware has answered the last reply of the authorization service.
Answered == pc = "done" /\ reply # NoReply

LastResult == gateResults[Len(gateResults)]

\* C6: a well-formed envelope with success = false, transported with a
\* status below 400, makes checkUserPermission return denied without an
\* error, and the middleware answers 403.
C6_SuccessFalseIsDenied ==
    (Answered /\ reply.transport = "ok" /\ reply.status < 400
     /\ reply.body.json /\ ~reply.body.success)
    => /\ LastResult = [allowed |-> FALSE, err |-> "nil"]
       /\ status = 403

\* The permission gate was called and could not come to a verdict.
Undetermined ==
    /\ gateCalls # <<>>
    /\ \/ serviceClient.nil
       \/ "auth" \notin DOMAIN serviceClient.serviceHosts
       \/ /\ Answered
          /\ \/ reply.transport # "ok"
             \/ reply.status >= 400
             \/ ~reply.body.json

\* C7: when the permission gate cannot come to a verdict (the transport
\* fails or times out, the status is 400 or more, the body cannot be
\* decoded, the route has no host, the service client is not initialized)
\* the middleware answers 500 and aborts: never 403, never through.
C7_ErrorIsInternal ==
    (pc = "done" /\ Undetermined)
    => /\ status = 500
       /\ message = T("failed_to_validate_permissions")
       /\ aborted
       /\ ~handlerRan
       /\ ~Determined(LastResult)

\* C7 witness: the authorization service answers 403 with a body that
\* reads as an allowance, and the middleware answers 500.
C7_Witness ==
    /\ Answered
    /\ reply.transport = "ok"
    /\ reply.status = 403
    /\ reply.body = [json |-> TRUE, success |-> TRUE, data |-> "{\"allowed\":true}"]
    /\ status = 500

DeniedReply ==
    [transport |-> "ok", status |-> 200,
     body |-> [json |-> TRUE, success |-> TRUE, data |-> "{\"allowed\":false}"]]

\* C8: a request with only a bearer token that SmartAuthMiddleware accepts,
\* then PermissionMiddleware(p) with an authorization service that answers
\* success = true, allowed = false, ends with 403 naming p.
C8_EndToEndForbidden ==
    (/\ entry = "SmartAuthMiddleware"
     /\ header.XServiceSecret = ""
     /\ EqString(keys.authType, user)
     /\ mw = "PermissionMiddleware"
     /\ ~serviceClient.nil
     /\ pc = "done"
     /\ reply \in {NoReply, DeniedReply})
    => /\ status = 403
       /\ message = [key |-> "insufficient_permissions", arg |-> permissions[1]]

\* parseJWTToken is called: the classifier got as far as the token.
Validated ==
    /\ \/ Classified("AuthMiddleware")
       \/ (Classified("SmartAuthMiddleware") /\ header.XServiceSecret = "")
    /\ IsBearer
    /\ Secret # ""

AcceptedAsUser(sub) ==
    /\ ~aborted
    /\ status = 0
    /\ pc = "authz"
    /\ keys.user_id.type \in {"uint", "uint64"}
    /\ keys.user_id.num = sub

RejectedToken ==
    /\ pc = "done"
    /\ aborted
    /\ status = 401
    /\ message = T("invalid_or_expired_token")
    /\ ~Exists(keys.user_id)
    /\ ~Exists(keys.authType)

\* C9 as stated: every token signed under the secret with an HMAC method
\* whose expiry is absent or not before the current time yields its
\* subject id, and every token signed with another secret is rejected.
C9_AsStated ==
    (Validated /\ Token.kind = "jwt")
    => /\ (Token.key = Secret /\ Token.alg \in HMACAlgs
           /\ (Token.exp = NoTime \/ Token.exp >= now))
          => (Parsed = [err |-> "nil", UserID |-> Token.sub]
              /\ AcceptedAsUser(Token.sub))
       /\ Token.key # Secret => (Parsed.err # "nil" /\ RejectedToken)

\* C9 amended: every token signed under the secret with an HMAC method
\* whose expiry is absent or after the current time and whose not-before
\* is absent or not after the current time yields its subject id, and
\* every token signed with another secret is rejected.
C9_ValidTokenAccepted ==
    (Validated /\ Token.kind = "jwt")
    => /\ (Token.key = Secret /\ Token.alg \in HMACAlgs
           /\ (Token.exp = NoTime \/ Token.exp > now)
           /\ (Token.nbf = NoTime \/ Token.nbf <= now))
          => (Parsed = [err |-> "nil", UserID |-> Token.sub]
              /\ AcceptedAsUser(Token.sub))
       /\ Token.key # Secret => (Parsed.err # "nil" /\ RejectedToken)

\* C9 witness: a token with an expiry still to come, accepted.
C9_Witness ==
    /\ Validated
    /\ Token.kind = "jwt"
    /\ Token.key = Secret
    /\ Token.exp # NoTime
    /\ Token.exp > now
    /\ AcceptedAsUser(Token.sub)

\* C10: a token whose expiry is before the current time is rejected by
\* parseJWTToken also when its signature verifies, and SmartAuthMiddleware
\* and AuthMiddleware answer 401 and store no user_id.
C10_ExpiredRejected ==
    (Validated /\ Token.kind = "jwt" /\ Token.exp # NoTime /\ Token.exp < now)
    => /\ Parsed.err # "nil"
       /\ RejectedToken

\* C10 witness: an expired token with a signature that verifies, rejected.
C10_Witness ==
    /\ Validated
    /\ Token.kind = "jwt"
    /\ Token.key = Secret
    /\ Token.alg \in HMACAlgs
    /\ Token.nbf = NoTime
    /\ Token.exp # NoTime
    /\ Token.exp < now
    /\ status = 401

\* The signing algorithm of the deployment's tokens.
ExpectedAlg == "HS256"

\* C11: a token whose header names an algorithm other than the single
\* expected symmetric algorithm is rejected by the token validator, also
\* when its signature is valid for the named algorithm under the secret.
C11_SingleAlgorithm ==
    (Validated /\ Token.kind = "jwt" /\ Token.alg # ExpectedAlg)
    => /\ Parsed.err # "nil"
       /\ RejectedToken

AcceptedToken == Validated /\ Parsed.err = "nil"

\* C12: when SmartAuthMiddleware or AuthMiddleware accept a user, the
\* user_id of the context and the X-User-ID header of the request both
\* denote the subject of the validated token, whatever X-User-ID the client
\* sent.
C12_ConsistentSubject ==
    AcceptedToken
    => /\ Exists(keys.user_id)
       /\ keys.user_id.num = Token.sub
       /\ ParseUint32(header.XUserID) = [err |-> "nil", val |-> Token.sub]

\* C12 witness: an accepted token, sent with an X-User-ID header that
\* names another subject.
C12_Witness ==
    /\ AcceptedToken
    /\ inbound.XUserID # <<>>
    /\ inbound.XUserID # FormatUint(Token.sub)
    /\ header.XUserID = FormatUint(Token.sub)

\* No service-secret header, and an Authorization header that is not empty
\* and does not begin with "Bearer ".
BadFormat ==
    /\ \/ Classified("AuthMiddleware")
       \/ (Classified("SmartAuthMiddleware") /\ inbound.XServiceSecret = "")
    /\ inbound.Authorization # NoHeader
    /\ inbound.Authorization.scheme # "Bearer "

\* C13: a request without service-secret header whose Authorization header
\* is not empty and does not begin with "Bearer " is answered 401 for its
\* format by SmartAuthMiddleware and AuthMiddleware, and parseJWTToken is
\* not called, with or without a local-validation secret.
C13_BadFormatRejected ==
    BadFormat
    => /\ pc = "done"
       /\ aborted
       /\ status = 401
       /\ message = T("invalid_authorization_format")
       /\ tokenCalls = <<>>
       /\ ~Exists(keys.user_id)

\* C13 witness: "bearer " in lower case before a token that the configured
\* secret verifies.
C13_Witness ==
    /\ BadFormat
    /\ inbound.Authorization.scheme = "bearer "
    /\ Token.kind = "jwt"
    /\ Token.key = Secret
    /\ status = 401

NoLocalSecret ==
    /\ (Len(jwtSecret) = 0 \/ jwtSecret[1] = "")
    /\ JWTSecret = ""

Untagged == ~Exists(keys.user_id) /\ ~Exists(keys.authType)

\* C14: LoadEnv does not end the process for a missing JWT_SECRET; without
\* a local-validation secret from the argument or the configuration every
\* request with a "Bearer <token>" header and no service-secret header is
\* answered 500 and is not accepted as a user, and SmartAuthMiddleware
\* still accepts the request that carries the configured service secret.
C14_MissingSecret ==
    /\ (pc # "boot" /\ ~MissingRequired(env) /\ env.JWT_SECRET = "")
       => /\ pc # "exit"
          /\ JWTSecret = ""
          /\ ServiceSecret = env.SERVICE_SECRET
    /\ (/\ NoLocalSecret
        /\ \/ Classified("AuthMiddleware")
           \/ (Classified("SmartAuthMiddleware") /\ inbound.XServiceSecret = "")
        /\ IsBearer)
       => /\ pc = "done"
          /\ aborted
          /\ status = 500
          /\ message = T("jwt_secret_not_configured")
          /\ tokenCalls = <<>>
          /\ Untagged
    /\ (/\ NoLocalSecret
        /\ Classified("SmartAuthMiddleware")
        /\ inbound.XServiceSecret # ""
        /\ inbound.XServiceSecret = ServiceSecret)
       => /\ pc = "authz"
          /\ ~aborted
          /\ status = 0
          /\ EqString(keys.authType, service)

\* C14 witness: the process was configured by LoadEnv without JWT_SECRET
\* and a request with a well-formed token is answered 500.
C14_Witness ==
    /\ ~MissingRequired(env)
    /\ env.JWT_SECRET = ""
    /\ NoLocalSecret
    /\ Classified("SmartAuthMiddleware")
    /\ inbound.XServiceSecret = ""
    /\ IsBearer
    /\ Token.kind = "jwt"
    /\ Token.alg = "HS256"
    /\ status = 500

\* The requests SmartAuthMiddleware rejects: a wrong service secret, or no
\* service secret and no Authorization header, one of a wrong format, no
\* local-validation secret, or a token that parseJWTToken refuses.
SmartAuthRejects ==
    /\ Classified("SmartAuthMiddleware")
    /\ \/ (inbound.XServiceSecret # "" /\ inbound.XServiceSecret # ServiceSecret)
       \/ /\ inbound.XServiceSecret = ""
          /\ \/ inbound.Authorization = NoHeader
             \/ ~IsBearer
             \/ Secret = ""
             \/ Parsed.err # "nil"

\* C15: every rejection of SmartAuthMiddleware answers and aborts the
\* chain: no later middleware and no handler runs, neither authType nor
\* user_id is stored, and the request header is as the client sent it.
C15_RejectLeavesUntagged ==
    SmartAuthRejects
    => /\ pc = "done"
       /\ aborted
       /\ status \in {401, 500}
       /\ ~handlerRan
       /\ mw = ""
       /\ gateCalls = <<>>
       /\ Untagged
       /\ header = inbound

\* C15 witness: a request with its own X-User-ID header and a token signed
\* with another secret, rejected.
C15_Witness ==
    /\ SmartAuthRejects
    /\ inbound.XServiceSecret = ""
    /\ IsBearer
    /\ Secret # ""
    /\ Token.kind = "jwt"
    /\ Token.key # Secret
    /\ inbound.XUserID # <<>>
    /\ status = 401

\* The limiter is a token bucket: time.Minute / requestsPerMinute is a
\* positive duration.
IsBucket(l) == ~limiters[l].lim.limit.inf

\* The admission checks made on the limiter l, a bucket created for a client
\* key the map did not hold: the first requestsPerMinute checks made at the
\* time of its creation are admitted, the next one at that time is answered
\* 429 without the handler, and the check after these is admitted when a
\* minute / requestsPerMinute has passed.
BurstAndRefill(l) ==
    LET N == requestsPerMinute
        cs == limiters[l].checks
    IN \A i \in 1 .. Len(cs) :
        /\ (cs[i].elapsed = 0 /\ i <= N)
           => (cs[i].allowed /\ cs[i].handlerRan /\ ~cs[i].aborted)
        /\ (cs[i].elapsed = 0 /\ i = N + 1)
           => (~cs[i].allowed /\ cs[i].status = 429 /\ cs[i].aborted /\ ~cs[i].handlerRan)
        /\ (i = N + 2 /\ cs[N + 1].elapsed = 0 /\ cs[i].elapsed * N >= Minute)
           => cs[i].allowed

\* C16: for every ceiling requestsPerMinute >= 1 a client key the limiter
\* has not seen is admitted on its first requestsPerMinute checks made with
\* no time passing, the next check is denied with 429 and the handler does
\* not run, and after 60 / requestsPerMinute seconds a check is admitted.
C16_BurstAndRefill ==
    \A l \in 1 .. Len(limiters) : BurstAndRefill(l)

\* The same for the ceilings that give a token bucket.
C16_Bucket ==
    \A l \in 1 .. Len(limiters) : IsBucket(l) => BurstAndRefill(l)

\* A full burst, its denial and the refill.
C16_BucketWitness ==
    \E l \in 1 .. Len(limiters) :
        LET cs == limiters[l].checks
        IN /\ IsBucket(l)
           /\ requestsPerMinute > 1
           /\ Len(cs) = requestsPerMinute + 2
           /\ ~cs[requestsPerMinute + 1].allowed
           /\ cs[requestsPerMinute + 2].allowed

\* The checks the limiter l admitted at the time of its creation.
GrantedAtOnce(l) ==
    Cardinality({i \in 1 .. Len(limiters[l].checks) :
                    limiters[l].checks[i].elapsed = 0 /\ limiters[l].checks[i].allowed})

\* One bucket for a key: the map's limiter is a limiter made for the key,
\* a handler holds a limiter made for its key, two limiters of one key were
\* made more than the idle threshold apart, and the first check on a
\* limiter finds a token.
OneBucket ==
    /\ \A ip \in IPs :
        clients[ip].exists => limiters[clients[ip].limiter].ip = ip
    /\ \A h \in Handlers :
        handlers[h].pc = "allow"
        => /\ limiters[handlers[h].limiter].ip = handlers[h].ip
           /\ clients[handlers[h].ip].exists
              => (\/ clients[handlers[h].ip].limiter = handlers[h].limiter
                  \/ now - limiters[handlers[h].limiter].created > IdleThreshold)
    /\ \A l1, l2 \in 1 .. Len(limiters) :
        (l1 < l2 /\ limiters[l1].ip = limiters[l2].ip)
        => limiters[l2].created - limiters[l1].created > IdleThreshold
    /\ \A l \in 1 .. Len(limiters) :
        limiters[l].checks # <<>> => limiters[l].checks[1].allowed

\* C17: under every interleaving of the handlers and the cleanup goroutine
\* one bucket is made for a key when it is first seen, full, the checks of
\* the key are made on it, and with no time passing it admits at most
\* requestsPerMinute checks.
C17_NoDoubleGrant ==
    /\ OneBucket
    /\ \A l \in 1 .. Len(limiters) : GrantedAtOnce(l) <= requestsPerMinute

\* The same for the ceilings that give a token bucket.
C17_Bucket ==
    /\ OneBucket
    /\ \A l \in 1 .. Len(limiters) : IsBucket(l) => GrantedAtOnce(l) <= requestsPerMinute

\* Two handlers were between the map and Allow with the same limiter, and
\* the limiter granted its last token once.
C17_BucketWitness ==
    \E l \in 1 .. Len(limiters) :
        /\ IsBucket(l)
        /\ GrantedAtOnce(l) = requestsPerMinute
        /\ Len(limiters[l].checks) > requestsPerMinute
        /\ \E h \in Handlers : handlers[h].pc = "allow" /\ handlers[h].limiter = l

\* A pass of the cleanup goroutine was made, at time LastSweep.
Swept == wake > SweepPeriod
LastSweep == wake - SweepPeriod

InFlight(ip) == \E h \in Handlers : handlers[h].pc = "allow" /\ handlers[h].ip = ip

\* C18 as stated: after a pass of the cleanup goroutine the map holds no
\* key whose last admitted check is older than the idle threshold, whatever
\* checks of the key were denied since.
C18_AsStated ==
    Swept
    => \A ip \in IPs :
        (/\ clients[ip].exists
         /\ ~InFlight(ip)
         /\ clients[ip].lastSeen <= LastSweep)
        => LastSweep - limiters[clients[ip].limiter].admittedAt <= IdleThreshold

\* C18 amended: after a pass of the cleanup goroutine the map holds no key
\* whose last admission check, admitted or denied, is older than the idle
\* threshold.
C18_IdleEviction ==
    Swept
    => \A ip \in IPs :
        clients[ip].exists => LastSweep - clients[ip].lastSeen <= IdleThreshold

\* C18 witness: a key that was checked is gone from the map after a pass.
C18_Witness ==
    /\ Swept
    /\ \E l \in 1 .. Len(limiters) :
        /\ limiters[l].checks # <<>>
        /\ ~clients[limiters[l].ip].exists
        /\ LastSweep - limiters[l].created > IdleThreshold


(***************************************************************************)
(* Service client.                                                         *)
(***************************************************************************)
\* The path segments of a route: what stands between its slashes, the
\* leading slash set apart.
PathSegments(route) ==
    IF Len(route) > 1 /\ Head(route) = "" THEN Tail(route) ELSE route

\* One of Get, Post, Put, Delete was called and went as far as it goes
\* without the network.
Called == pc \in {"do", "returned"} /\ call.method \in {"GET", "POST", "PUT", "DELETE"}

Unroutable ==
    \/ Len(PathSegments(call.route)) < 3
    \/ PathSegments(call.route)[3] \notin DOMAIN serviceClient.serviceHosts

\* The URL of the route at the host configured for its service.
RoutedURL ==
    LET host == serviceClient.serviceHosts[PathSegments(call.route)[3]]
        base == IF Len(host) > 1 /\ host[Len(host)] = ""
                THEN SubSeq(host, 1, Len(host) - 1)
                ELSE host
    IN base \o PathSegments(call.route)

\* C19: a call of Get, Post, Put or Delete with a route of fewer than three
\* path segments, or whose third segment has no entry in the host table,
\* returns an error and hands no request to the HTTP client; with a
\* configured service the request goes to the configured host with the path
\* of the route, and it goes unless the payload cannot be encoded or the
\* host is no URL.
C19_Routing ==
    Called =>
        /\ Unroutable =>
              /\ returned.done
              /\ returned.err # "nil"
              /\ outbound = <<>>
        /\ ~Unroutable /\ outbound # <<>> =>
              /\ Len(outbound) = 1
              /\ outbound[1].method = call.method
              /\ outbound[1].url = RoutedURL
        /\ ~Unroutable /\ Marshal(call.payload) = "nil"
                       /\ RoutedURL[1] \notin Malformed =>
              outbound # <<>>

\* "/api/v1/orders/123" was asked with no host configured for orders.
C19_Witness ==
    /\ Called
    /\ call.route = <<"", "api", "v1", "orders", "123">>
    /\ "orders" \notin DOMAIN serviceClient.serviceHosts
    /\ returned.err = "failed to build URL"

\* A route of a configured service was sent to the host, whose trailing
\* slash was dropped.
C19_Routed ==
    /\ Called
    /\ call.route = <<"api", "v1", "orders">>
    /\ outbound # <<>>
    /\ serviceClient.serviceHosts["orders"] = <<"http://orders", "">>

AllowList == {"X-User-ID", "X-Request-ID", "Accept-Language"}

\* C20: every request handed to the HTTP client carries X-Service-ID and
\* X-Service-Secret with the credentials the client was made with, and
\* besides these and Content-Type only headers of the allow-list.
C20_OutboundHeaders ==
    \A i \in DOMAIN outbound :
        LET h == outbound[i].header
        IN /\ {"X-Service-ID", "X-Service-Secret"} \subseteq DOMAIN h
           /\ h["X-Service-ID"] = <<serviceClient.serviceID>>
           /\ h["X-Service-Secret"] = <<serviceClient.serviceSecret>>
           /\ DOMAIN h \subseteq
                 AllowList \cup {"Content-Type", "X-Service-ID", "X-Service-Secret"}
           /\ h["Content-Type"] = <<"application/json">>

\* A request went out for an inbound request that came with a service
\* secret of its own and with headers of the allow-list.
C20_Witness ==
    /\ Called
    /\ outbound # <<>>
    /\ call.ctx.gin
    /\ header.XServiceSecret = "inbound-secret"
    /\ {"X-User-ID", "X-Request-ID", "Accept-Language"} \subseteq DOMAIN outbound[1].header


\* RequestIDMiddleware ran for the inbound request and the handler's call
\* of the client went out.
Propagated ==
    /\ Called
    /\ call.ctx.gin
    /\ Exists(keys.request_id)
    /\ outbound # <<>>

\* C21: an outbound call made while an inbound request is handled carries in
\* X-Request-ID the request id RequestIDMiddleware attached to that request,
\* the one that came in the header as well as the one it generated.
C21_RequestIDPropagated ==
    Propagated =>
        /\ "X-Request-ID" \in DOMAIN outbound[1].header
        /\ outbound[1].header["X-Request-ID"] = keys.request_id.str
        /\ responseHeader = keys.request_id.str

\* The id that came in the inbound header is carried.
C21_InboundID ==
    Propagated /\ inbound.XRequestID # <<>> =>
        /\ "X-Request-ID" \in DOMAIN outbound[1].header
        /\ outbound[1].header["X-Request-ID"] = keys.request_id.str


\* The call came back from the one http.Client.Do it made.
Attempted == Called /\ returned.done /\ outbound # <<>>

\* C22: a call of Get, Post, Put or Delete hands at most one request to the
\* HTTP client; after a transport failure or an answer of status 400 or
\* more it returns an error and no response, after an answer of a status
\* below 400 the response and no error.
C22_SingleAttempt ==
    /\ Called => Len(outbound) <= 1
    /\ Attempted =>
          IF reply.transport # "ok" \/ reply.status >= 400
          THEN returned.err # "nil" /\ ~returned.resp
          ELSE returned.err = "nil" /\ returned.resp

\* The peer answered 404.
C22_Witness ==
    /\ Attempted
    /\ reply.transport = "ok"
    /\ reply.status = 404
    /\ returned.err = "service returned error"


(***************************************************************************)
(* Cancellation.                                                           *)
(***************************************************************************)
\* C23: when the inbound request is cancelled while its permission check is
\* in flight, the outbound call is cancelled with it: the check does not go
\* on to the answer of the remote or to the timeout of the client.
C23_CancellationPropagates ==
    cancelled => pc = "inflight" \/ reply = Canceled


(***************************************************************************)
(* Authorization middleware of pkg/middleware.                             *)
(***************************************************************************)
\* RequirePermission of pkg/middleware got the result of its check, and the
\* check had no error.
CheckedWithoutError ==
    /\ mw = "pkg.RequirePermission"
    /\ pc \in {"done", "panic"}
    /\ gateResults # <<>>
    /\ gateResults[Len(gateResults)].err = "nil"

\* C25: when the permission check of RequirePermission completes without
\* error the handler does not fault: allowed, the next handler runs; denied,
\* the answer is 403.
C25_NoFault ==
    CheckedWithoutError =>
        /\ pc # "panic"
        /\ IF gateResults[Len(gateResults)].allowed
           THEN handlerRan /\ status = 0
           ELSE status = 403 /\ aborted /\ ~handlerRan

\* Both middlewares of a family ran on the same request.
Compared == first.round = 2 /\ pc \in {"done", "panic"}

SameOutcome == \A f \in DOMAIN Outcome : first[f] = Outcome[f]

\* C26: with one permission the single-permission and the multi-permission
\* middleware come to the same status, message, number of gate calls and
\* decision to proceed or abort, for every request context and every answer
\* of the authorization service.
C26_VariantsEquivalent == Compared => SameOutcome

\* The half of C26 about PermissionMiddleware and PermissionAnyMiddleware.
C26_PermissionVariants ==
    Compared /\ first.mw = "PermissionMiddleware" => SameOutcome

\* The two were compared on a request whose check was made.
C26_PermissionVariantsWitness ==
    Compared /\ first.mw = "PermissionMiddleware" /\ first.calls = 1 /\ first.status = 403


(***************************************************************************)
(* Subject of the permission query.                                        *)
(***************************************************************************)
\* C27: for a request authenticated as a user, every query sent to the
\* authorization service names, as user_id of its payload and in its
\* X-User-ID header, the subject of the validated token, whatever X-User-ID
\* header the client sent.
C27_SubjectOfQuery ==
    AcceptedToken =>
        \A i \in DOMAIN outbound :
            /\ outbound[i].body.user_id = Token.sub
            /\ "X-User-ID" \in DOMAIN outbound[i].header
            /\ outbound[i].header["X-User-ID"] = FormatUint(Token.sub)

\* A query went out for a client that named another subject in X-User-ID.
C27_Witness ==
    /\ AcceptedToken
    /\ outbound # <<>>
    /\ inbound.XUserID # <<>>
    /\ inbound.XUserID # FormatUint(Token.sub)


(***************************************************************************)
(* Rate limiter: mutex, sweep and eviction.                                *)
(***************************************************************************)
Blocked(h) == handlers[h].pc = "next"

Panicked(h) == handlers[h].pc = "panic"

\* C24: a request blocked in its permission check holds no lock of the
\* pipeline: the mutex of the rate limiter is not with it, and it is free
\* for the admission checks of the other requests.
C24_Isolation ==
    /\ \A h \in Handlers : Blocked(h) => mu # h
    /\ ((\E h \in Handlers : Blocked(h)) /\ ~(\E h \in Handlers : Panicked(h)))
       => mu = Free

\* A request was admitted, and then blocked in its own permission check,
\* while another one was blocked.
C24_Witness == \A h \in Handlers : Blocked(h)

\* C28: every verdict of the limiter is the verdict the same checks get
\* from a limiter whose map is never swept.
C28_EvictionUnobservable ==
    \A l \in 1 .. Len(limiters) :
        \A i \in 1 .. Len(limiters[l].checks) :
            limiters[l].checks[i].allowed = limiters[l].checks[i].unswept

\* The limiter was asked for a token longer after the entry of the IP was
\* stamped than the idle threshold less the minute in which a bucket fills.
Delayed(check) == check.delay > IdleThreshold - Minute

\* C28, for handlers that are not held up between mu.Unlock() and
\* limiter.Allow(): when no check was delayed, every verdict is the verdict
\* of the limiter whose map is never swept.
C28_Undelayed ==
    (\A l \in 1 .. Len(limiters) :
        \A i \in 1 .. Len(limiters[l].checks) : ~Delayed(limiters[l].checks[i]))
    => C28_EvictionUnobservable

\* A check on a bucket made again after a sweep, when no check was delayed.
C28_UndelayedWitness ==
    /\ \A l \in 1 .. Len(limiters) :
          \A i \in 1 .. Len(limiters[l].checks) : ~Delayed(limiters[l].checks[i])
    /\ \E l \in 1 .. Len(limiters) :
          /\ limiters[l].created > 0
          /\ limiters[l].checks # <<>>
          /\ \E k \in 1 .. Len(limiters) :
                /\ k < l
                /\ limiters[k].ip = limiters[l].ip
                /\ limiters[k].checks # <<>>

\* C29: the mutex is held only inside the critical sections of the handler
\* and of the sweep, which are single steps here: it is free in every
\* state, for every ceiling, and so it is when the limiter is asked for a
\* token.
C29_LockReleased == mu = Free

\* C30: a sweep pass leaves alone every entry whose last admission check is
\* not older than the idle threshold, removes nothing but entries, and
\* changes no limiter and no time stamp of the entries it leaves.
C30_SweepFrame ==
    [][wake' # wake =>
          /\ \A ip \in IPs :
                /\ (clients[ip].exists /\ now - clients[ip].lastSeen <= IdleThreshold)
                   => clients'[ip] = clients[ip]
                /\ clients'[ip] \in {clients[ip], NoClient}
          /\ limiters' = limiters
          /\ handlers' = handlers
          /\ now' = now]_vars

\* A sweep has removed one entry and left another one, seen before it.
C30_Witness ==
    /\ Swept
    /\ \E ip \in IPs : clients[ip].exists /\ clients[ip].lastSeen <= LastSweep
    /\ \E l \in 1 .. Len(limiters) :
          /\ ~clients[limiters[l].ip].exists
          /\ limiters[l].checks # <<>>


(***************************************************************************)
(* Empty permission lists.                                                 *)
(***************************************************************************)
\* The value under user_id is one the type switch converts: a uint, an int,
\* or a string of decimal digits of at most 32 bits.
WellTyped ==
    \/ keys.user_id.type \in {"uint", "int"}
    \/ keys.user_id.type = "string" /\ ParseUint32(keys.user_id.str).err = "nil"

\* A middleware of several permissions was installed with none and ran.
EmptyList == mw \in {"PermissionAnyMiddleware", "RequirePermissions"} /\ permissions = <<>>

NoGateCall == gateCalls = <<>> /\ outbound = <<>> /\ reply = NoReply

\* C31, as stated: with an empty list both middlewares let every request
\* with a well-typed user_id go on to the handler, with no call of the gate.
C31_AsStated ==
    (EmptyList /\ WellTyped) => handlerRan /\ ~aborted /\ NoGateCall

\* The requests a middleware with an empty list lets through.
Proceeds ==
    IF mw = "RequirePermissions" THEN WellTyped
    ELSE \/ IsService(keys.authType)
         \/ IsUser(keys.authType) /\ WellTyped

\* C31, amended: with an empty list the gate is never called and the
\* authorization service never consulted; RequirePermissions lets through
\* the requests with a well-typed user_id, PermissionAnyMiddleware the
\* requests whose authType is "service" and those whose authType is "user"
\* and whose user_id is well-typed; every other request is answered 401.
C31_EmptyList ==
    EmptyList =>
        /\ NoGateCall
        /\ pc = "done"
        /\ handlerRan <=> Proceeds
        /\ handlerRan => ~aborted /\ status = 0
        /\ ~handlerRan => aborted /\ status = 401

\* Both cases of the amendment for a user: a request let through by a
\* middleware with an empty list on a user_id stored as a string.
C31_Witness ==
    /\ EmptyList
    /\ mw = "PermissionAnyMiddleware"
    /\ IsUser(keys.authType)
    /\ keys.user_id.type = "string"
    /\ handlerRan

====
